---- MODULE Spec2Model ----
(***************************************************************************)
(* State-machine model of ubus-rs' Connection (src/src/connection.rs):     *)
(* the handshake, the three client requests invoke / lookup / add_server   *)
(* and the serve loop of add_server.  The bus daemon is the environment:   *)
(* every blocking next_message() is one step whose input is the frame the  *)
(* daemon delivers (or a read failure).  Writes are assumed to succeed     *)
(* while the stream has not reported end-of-file.                          *)
(*                                                                         *)
(* The second half models the codecs as operators on byte sequences:       *)
(* BlobTag, BlobBuilder and UbusBlob (src/src/blob.rs), BlobMsg and its    *)
(* builder, and the conversion between JSON values and MsgTable            *)
(* (src/src/blobmsg.rs), and the frame codec UbusMsg with BlobIter         *)
(* (src/src/ubusmsg.rs).  Each codec has a specification of its own        *)
(* (SpecTag, SpecBlob, SpecMsg, SpecJson, SpecFrame, SpecBuilder,          *)
(* SpecSibling, SpecArgs) whose runs convert one value.                    *)
(***************************************************************************)
EXTENDS Integers, Sequences, FiniteSets, TLC

(* ---------------------------------------------------------------------- *)
(* Bounds of the exploration                                              *)
(* ---------------------------------------------------------------------- *)
\* requests (invoke / lookup / add_server calls) issued in one run
MaxReq == 3
\* INVOKE frames answered by one serve loop
MaxServe == 2
\* DATA frames accumulated by one lookup
MaxObjs == 2

(* ---------------------------------------------------------------------- *)
(* Wire constants                                                         *)
(* ---------------------------------------------------------------------- *)
\* width of Connection.sequence (u16)
U16 == 65536

HELLO == 0
STATUS == 1
DATA == 2
LOOKUP == 4
INVOKE == 5
ADD_OBJECT == 6
NOTIFY == 16
PING == 3
REMOVE_OBJECT == 7
SUBSCRIBE == 8
UNSUBSCRIBE == 9
MONITOR == 17
\* UbusMsgVersion::CURRENT and size_of::<UbusMsgHeader>()
CURRENT == 0
HEADER_SIZE == 8

OK == 0
METHOD_NOT_FOUND == 3
NOT_FOUND == 4

(* ---------------------------------------------------------------------- *)
(* Values: tables, attribute blobs, frames                                *)
(* ---------------------------------------------------------------------- *)
\* MsgTable::new(): the empty table
EmptyTable == <<>>
\* request arguments used by callers
ArgsTable == <<[name |-> "msg", val |-> 1]>>
\* what the "hi" handler answers
HiTable == <<[name |-> "haha", val |-> 1]>>
\* a second reply table
OtherTable == <<[name |-> "clo", val |-> 2]>>

\* one attribute of a frame body (enum UbusBlob); every variant carries the
\* same fields so that any two blobs compare: n = number, s = string, tbl = table
Blob(ty, num, str, table) == [t |-> ty, n |-> num, s |-> str, tbl |-> table]
Status(c) == Blob("Status", c, "", <<>>)
ObjId(i) == Blob("ObjId", i, "", <<>>)
ObjType(i) == Blob("ObjType", i, "", <<>>)
ObjPath(p) == Blob("ObjPath", 0, p, <<>>)
Method(m) == Blob("Method", 0, m, <<>>)
Data(tb) == Blob("Data", 0, "", tb)
\* Signature(MsgTable): one entry per method name, each an empty table
Signature(names) == Blob("Signature", 0, "", [k \in DOMAIN names |-> [name |-> names[k], val |-> 0]])

\* struct UbusMsg { header{cmd_type, sequence, peer}, blobs }; kind tells a
\* decoded frame from a failed read
Frame(c, s, p, b) == [kind |-> "frame", cmd_type |-> c, sequence |-> s, peer |-> p, blobs |-> b]
NoMsg == [kind |-> "none", cmd_type |-> 0, sequence |-> 0, peer |-> 0, blobs |-> <<>>]
\* io.get fails: the stream ended
EofMsg == [kind |-> "eof", cmd_type |-> 0, sequence |-> 0, peer |-> 0, blobs |-> <<>>]
\* header.version # CURRENT: valid_data!(.., "Wrong version") fails
BadMsg == [kind |-> "bad", cmd_type |-> 0, sequence |-> 0, peer |-> 0, blobs |-> <<>>]

(* ---------------------------------------------------------------------- *)
(* Iteration over the attributes of a frame                               *)
(* ---------------------------------------------------------------------- *)
SetMin(S) == CHOOSE x \in S : \A y \in S : x <= y
SetMax(S) == CHOOSE x \in S : \A y \in S : x >= y
Idx(blobs, ty) == {k \in DOMAIN blobs : blobs[k].t = ty}

\* `for blob in blobs { match blob { Variant(v) => x = v, .. } }`: the last
\* attribute of the variant wins, the initial value stays when there is none
LastBlob(blobs, ty, default) ==
    IF Idx(blobs, ty) = {} THEN default ELSE blobs[SetMax(Idx(blobs, ty))]

\* the STATUS arm of invoke, lookup and the registration loop: the first
\* Status attribute decides, none is "Invalid status message"
StatusOutcome(blobs) ==
    IF Idx(blobs, "Status") = {} THEN [kind |-> "InvalidData", code |-> 0]
    ELSE LET st == blobs[SetMin(Idx(blobs, "Status"))].n
         IN  IF st = OK THEN [kind |-> "Ok", code |-> 0]
             ELSE [kind |-> "Status", code |-> st]

\* the STATUS arm of the serve loop: Status(OK) is skipped, the first other
\* Status is returned as error, otherwise "Invalid status message"
ServeStatusOutcome(blobs) ==
    LET bad == {k \in Idx(blobs, "Status") : blobs[k].n # OK}
    IN  IF bad = {} THEN [kind |-> "InvalidData", code |-> 0]
        ELSE [kind |-> "Status", code |-> blobs[SetMin(bad)].n]

(* ---------------------------------------------------------------------- *)
(* Results, lookup objects, server object                                 *)
(* ---------------------------------------------------------------------- *)
Res(o, k, c, tb, os) == [op |-> o, kind |-> k, code |-> c, tbl |-> tb, objs |-> os]
NoRes == Res("none", "none", 0, <<>>, <<>>)
\* the registration loop of add_server has not ended
NoOutcome == [kind |-> "none", code |-> 0]

\* UbusObject::default()
DefaultObj == [path |-> "", id |-> 0, objtype |-> 0, reported_signature |-> <<>>]

\* a variant that leaves the path of the object at its default
ObjFromBlobsNoPath(blobs) ==
    [path |-> "",
     id |-> LastBlob(blobs, "ObjId", ObjId(0)).n,
     objtype |-> LastBlob(blobs, "ObjType", ObjType(0)).n,
     reported_signature |-> LastBlob(blobs, "Signature", Signature(<<>>)).tbl]

\* the DATA arm of lookup: one object per frame, filled from its attributes
ObjFromBlobs(blobs) ==
    [path |-> LastBlob(blobs, "ObjPath", ObjPath("")).s,
     id |-> LastBlob(blobs, "ObjId", ObjId(0)).n,
     objtype |-> LastBlob(blobs, "ObjType", ObjType(0)).n,
     reported_signature |-> LastBlob(blobs, "Signature", Signature(<<>>)).tbl]

\* UbusServerObject::default(): no methods, id and objtype 0
DefaultServerObj == [id |-> 0, objtype |-> 0, methods |-> {}]

\* the callbacks a server object is built with
Handler(name, args) == IF name = "echo" THEN args ELSE HiTable

\* generate_new_request_sequence: self.sequence += 1 on a u16
NextSequence(seq) == (seq + 1) % U16
\* the addition overflows: a panic when built with overflow checks
Overflows(seq) == seq + 1 >= U16

(* ---------------------------------------------------------------------- *)
(* State                                                                  *)
(* ---------------------------------------------------------------------- *)
VARIABLES
    build,             \* "debug" | "release": debug_assertions / overflow checks
    pc,                \* where the caller's thread is
    io_open,           \* the stream has not reported end-of-file
    peer,              \* Connection.peer
    sequence,          \* Connection.sequence
    request_sequence,  \* the local of the request in progress
    reply_args,        \* invoke: the accumulated reply
    objs,              \* lookup: the accumulated objects
    server_obj,        \* add_server: the local server object
    add_result,        \* add_server: the value of the registration loop
    result,            \* what the last finished call returned
    out,               \* frames written by the call in progress / last call
    calls,             \* handler invocations of that call
    lastMsg,           \* the input of the latest next_message()
    registered,        \* object ids the daemon has registered for this connection
    nreq,              \* requests issued so far
    obj_path,          \* lookup: the path the caller passed
    cpc,               \* codec runs: the stage of the conversion
    cin,               \* codec runs: the value being converted
    cout               \* codec runs: what the conversion returned

\* the state of a Connection and of its caller
conn == <<build, pc, io_open, peer, sequence, request_sequence, reply_args, objs,
          server_obj, add_result, result, out, calls, lastMsg, registered, nreq,
          obj_path>>
\* the state of a codec run (no connection is involved)
codec == <<cpc, cin, cout>>

vars == <<conn, codec>>

\* the peer id the daemon assigns in HELLO, and the peer of later frames
HelloPeer == 8
FramePeer == 20
\* the counter of a connection that has issued U16 - MaxReq requests: the
\* last request of a run is the one on which the u16 wraps
AgedSequence == U16 - MaxReq

ObjIds == {1, 2}
Waiting == {"invoke", "lookup", "add_wait"}

Init ==
    /\ build \in {"debug", "release"}
    /\ io_open = TRUE
    /\ \/ pc = "new" /\ peer = 0 /\ sequence = 0
       \/ pc = "idle" /\ peer = HelloPeer /\ sequence = AgedSequence
    /\ request_sequence = 0
    /\ reply_args = EmptyTable
    /\ objs = <<>>
    /\ server_obj = DefaultServerObj
    /\ add_result = NoOutcome
    /\ result = NoRes
    /\ out = <<>>
    /\ calls = <<>>
    /\ lastMsg = NoMsg
    /\ registered = {}
    /\ nreq = 0
    /\ obj_path = ""
    /\ cpc = "off"
    /\ cin = <<>>
    /\ cout = <<>>

(* ---------------------------------------------------------------------- *)
(* What the daemon may deliver                                            *)
(* ---------------------------------------------------------------------- *)
StatusBlobLists ==
    { <<>>, <<Status(OK)>>, <<Status(NOT_FOUND)>>,
      <<Status(OK), Status(NOT_FOUND)>>, <<ObjId(1), Status(OK)>> }
DataBlobLists ==
    { <<>>, <<Data(HiTable)>>, <<Data(HiTable), Data(OtherTable)>>,
      <<ObjId(1), ObjType(5)>>,
      <<ObjPath("foo"), ObjId(1), ObjType(5), Signature(<<"hi">>)>> }
InvokeBlobLists ==
    { <<ObjId(i), Method(m), Data(ArgsTable)>> : i \in ObjIds, m \in {"hi", "nope"} }

\* a reply either echoes the request's sequence or carries another one; a
\* caller's INVOKE and a publisher's NOTIFY carry a sequence of their own
SeqChoices(rs) == {rs, NextSequence(rs)}

InFrames(rs) ==
    { Frame(STATUS, s, FramePeer, b) : s \in SeqChoices(rs), b \in StatusBlobLists }
    \cup { Frame(DATA, s, FramePeer, b) : s \in SeqChoices(rs), b \in DataBlobLists }
    \cup { Frame(c, NextSequence(rs), FramePeer, b) : c \in {INVOKE, NOTIFY}, b \in InvokeBlobLists }

\* the inputs of one next_message(): a frame, a frame that fails to decode,
\* or end of stream (the only input once the stream has ended)
InMsgs(rs) == IF io_open THEN InFrames(rs) \cup {EofMsg, BadMsg} ELSE {EofMsg}

(* ---------------------------------------------------------------------- *)
(* Steps shared by the operations                                         *)
(* ---------------------------------------------------------------------- *)
\* the operation returns to its caller
Return(o, k, c, tb, os) ==
    /\ pc' = "idle"
    /\ result' = Res(o, k, c, tb, os)

Panic ==
    /\ pc' = "panicked"
    /\ result' = result

\* `self.next_message()?` failed: the error is returned (valid_data! panics
\* instead when debug_assertions are on)
ReadFailure(o, m) ==
    IF m.kind = "eof" THEN Return(o, "IO", 0, <<>>, <<>>)
    ELSE IF build = "debug" THEN Panic
    ELSE Return(o, "InvalidData", 0, <<>>, <<>>)

(* ---------------------------------------------------------------------- *)
(* Connection::new                                                        *)
(* ---------------------------------------------------------------------- *)
New(m) ==
    /\ pc = "new"
    /\ lastMsg' = m
    /\ io_open' = (m.kind # "eof")
    /\ IF m.kind # "frame"
       THEN /\ IF m.kind = "bad" /\ build = "debug" THEN pc' = "panicked" ELSE pc' = "closed"
            /\ result' = Res("new", IF m.kind = "eof" THEN "IO" ELSE "InvalidData", 0, <<>>, <<>>)
            /\ peer' = peer
       ELSE IF m.cmd_type = HELLO
       THEN /\ pc' = "idle"
            /\ peer' = m.peer
            /\ result' = Res("new", "Ok", 0, <<>>, <<>>)
       ELSE /\ IF build = "debug" THEN pc' = "panicked" ELSE pc' = "closed"
            /\ result' = Res("new", "InvalidData", 0, <<>>, <<>>)
            /\ peer' = peer
    /\ UNCHANGED <<build, sequence, request_sequence, reply_args, objs, server_obj,
                   add_result, out, calls, registered, nreq, obj_path, codec>>

(* ---------------------------------------------------------------------- *)
(* The request half of invoke, lookup and add_server                      *)
(* ---------------------------------------------------------------------- *)
\* generate_new_request_sequence, then send(request): wait for the reply,
\* or return the write error, or panic on the counter's overflow
Request(o, wait, frame) ==
    /\ pc = "idle"
    /\ nreq < MaxReq
    /\ nreq' = nreq + 1
    /\ lastMsg' = NoMsg
    /\ calls' = <<>>
    /\ IF Overflows(sequence) /\ build = "debug"
       THEN /\ Panic
            /\ out' = <<>>
            /\ UNCHANGED <<sequence, request_sequence>>
       ELSE /\ sequence' = NextSequence(sequence)
            /\ request_sequence' = NextSequence(sequence)
            /\ IF io_open
               THEN /\ out' = <<frame>>
                    /\ pc' = wait
                    /\ result' = NoRes
               ELSE /\ out' = <<>>
                    /\ Return(o, "IO", 0, <<>>, <<>>)
    /\ UNCHANGED <<build, io_open, peer, registered, codec>>

InvokeCall(obj, method, req_args) ==
    /\ Request("invoke", "invoke",
               Frame(INVOKE, NextSequence(sequence), obj,
                     <<ObjId(obj), Method(method), Data(req_args)>>))
    /\ obj_path' = ""
    /\ reply_args' = EmptyTable
    /\ objs' = <<>>
    /\ server_obj' = DefaultServerObj
    /\ add_result' = NoOutcome

LookupCall(path) ==
    /\ Request("lookup", "lookup",
               Frame(LOOKUP, NextSequence(sequence), 0,
                     IF path = "" THEN <<>> ELSE <<ObjPath(path)>>))
    /\ obj_path' = path
    /\ reply_args' = EmptyTable
    /\ objs' = <<>>
    /\ server_obj' = DefaultServerObj
    /\ add_result' = NoOutcome

\* names: the method names in the order the HashMap iterates them
AddServerCall(path, names) ==
    /\ Request("add_server", "add_wait",
               Frame(ADD_OBJECT, NextSequence(sequence), 0,
                     <<ObjPath(path), Signature(names)>>))
    /\ obj_path' = ""
    /\ server_obj' = [DefaultServerObj EXCEPT !.methods = {names[k] : k \in DOMAIN names}]
    /\ add_result' = NoOutcome
    /\ reply_args' = EmptyTable
    /\ objs' = <<>>

(* ---------------------------------------------------------------------- *)
(* invoke: the reply loop                                                 *)
(* ---------------------------------------------------------------------- *)
\* one iteration of 'messages: the sequence comparison has an empty body, so
\* the frame is dispatched on its cmd_type whatever its sequence is
InvokeRecv(m) ==
    /\ pc = "invoke"
    /\ lastMsg' = m
    /\ io_open' = (io_open /\ m.kind # "eof")
    /\ IF m.kind # "frame"
       THEN /\ ReadFailure("invoke", m)
            /\ reply_args' = reply_args
       ELSE IF m.cmd_type = STATUS
       THEN LET so == StatusOutcome(m.blobs)
            IN  /\ Return("invoke", so.kind, so.code,
                          IF so.kind = "Ok" THEN reply_args ELSE <<>>, <<>>)
                /\ reply_args' = reply_args
       ELSE IF m.cmd_type = DATA
       THEN IF Idx(m.blobs, "Data") # {}
            THEN /\ reply_args' = m.blobs[SetMin(Idx(m.blobs, "Data"))].tbl
                 /\ UNCHANGED <<pc, result>>
            ELSE /\ Return("invoke", "InvalidData", 0, <<>>, <<>>)
                 /\ reply_args' = reply_args
       ELSE UNCHANGED <<pc, result, reply_args>>
    /\ UNCHANGED <<build, peer, sequence, request_sequence, objs, server_obj,
                   add_result, out, calls, registered, nreq, obj_path, codec>>

(* ---------------------------------------------------------------------- *)
(* lookup: the reply loop                                                 *)
(* ---------------------------------------------------------------------- *)
LookupRecv(m) ==
    /\ pc = "lookup"
    /\ m.kind = "frame" /\ m.cmd_type = DATA /\ m.sequence = request_sequence
          => Len(objs) < MaxObjs
    /\ lastMsg' = m
    /\ io_open' = (io_open /\ m.kind # "eof")
    /\ IF m.kind # "frame"
       THEN /\ ReadFailure("lookup", m)
            /\ objs' = objs
       ELSE IF m.sequence # request_sequence
       THEN UNCHANGED <<pc, result, objs>>
       ELSE IF m.cmd_type = STATUS
       THEN LET so == StatusOutcome(m.blobs)
            IN  /\ Return("lookup", so.kind, so.code, <<>>,
                          IF so.kind = "Ok" THEN objs ELSE <<>>)
                /\ objs' = objs
       ELSE IF m.cmd_type = DATA
       THEN /\ objs' = Append(objs, ObjFromBlobs(m.blobs))
            /\ UNCHANGED <<pc, result>>
       ELSE UNCHANGED <<pc, result, objs>>
    /\ UNCHANGED <<build, peer, sequence, request_sequence, reply_args, server_obj,
                   add_result, out, calls, registered, nreq, obj_path, codec>>

(* ---------------------------------------------------------------------- *)
(* add_server: the registration loop                                      *)
(* ---------------------------------------------------------------------- *)
\* the loop's value (reply_args in the source) is bound and never read: when
\* the loop breaks, with Ok or with Err, the function goes on to the serve loop
AddRecv(m) ==
    /\ pc = "add_wait"
    /\ lastMsg' = m
    /\ io_open' = (io_open /\ m.kind # "eof")
    /\ IF m.kind # "frame"
       THEN /\ ReadFailure("add_server", m)
            /\ UNCHANGED <<server_obj, add_result, registered>>
       ELSE IF m.sequence # request_sequence
       THEN UNCHANGED <<pc, result, server_obj, add_result, registered>>
       ELSE IF m.cmd_type = STATUS
       THEN LET so == StatusOutcome(m.blobs)
            IN  /\ add_result' = so
                /\ pc' = "serve"
                /\ registered' = IF so.kind = "Ok" /\ server_obj.id # 0
                                 THEN registered \cup {server_obj.id}
                                 ELSE registered
                /\ UNCHANGED <<result, server_obj>>
       ELSE IF m.cmd_type = DATA
       THEN IF \A k \in DOMAIN m.blobs : m.blobs[k].t \in {"ObjId", "ObjType"}
            THEN /\ server_obj' =
                      [server_obj EXCEPT
                         !.id = LastBlob(m.blobs, "ObjId", ObjId(server_obj.id)).n,
                         !.objtype = LastBlob(m.blobs, "ObjType", ObjType(server_obj.objtype)).n]
                 /\ UNCHANGED <<pc, result, add_result, registered>>
            ELSE \* `_ => todo!()`
                 /\ Panic
                 /\ UNCHANGED <<server_obj, add_result, registered>>
       ELSE UNCHANGED <<pc, result, server_obj, add_result, registered>>
    /\ UNCHANGED <<build, peer, sequence, request_sequence, reply_args, objs,
                   out, calls, nreq, obj_path, codec>>

(* ---------------------------------------------------------------------- *)
(* add_server: the serve loop                                             *)
(* ---------------------------------------------------------------------- *)
DataReply(m, id, tb) == Frame(DATA, m.sequence, m.peer, <<ObjId(id), Data(tb)>>)
StatusReply(m, id, code) == Frame(STATUS, m.sequence, m.peer, <<ObjId(id), Status(code)>>)

\* what the INVOKE arm extracts from the frame
ClientObjId(m) == LastBlob(m.blobs, "ObjId", ObjId(0)).n
MethodName(m) == LastBlob(m.blobs, "Method", Method("")).s
ReqArgs(m) == LastBlob(m.blobs, "Data", Data(EmptyTable)).tbl

\* the handler invocations of an INVOKE frame: `server_obj.methods.get`
ServeCalls(m, methods) ==
    IF MethodName(m) \in methods
    THEN <<[method |-> MethodName(m), args |-> ReqArgs(m),
            ret |-> Handler(MethodName(m), ReqArgs(m)), objid |-> ClientObjId(m)]>>
    ELSE <<>>

\* a variant that writes the terminal STATUS before the DATA frame
ServeRepliesStatusFirst(m, methods) ==
    IF MethodName(m) \in methods
    THEN << StatusReply(m, ClientObjId(m), OK),
            DataReply(m, ClientObjId(m), Handler(MethodName(m), ReqArgs(m))) >>
    ELSE << StatusReply(m, ClientObjId(m), METHOD_NOT_FOUND) >>

\* a variant that answers an unknown method with NOT_FOUND (4)
ServeRepliesNotFound(m, methods) ==
    IF MethodName(m) \in methods
    THEN << DataReply(m, ClientObjId(m), Handler(MethodName(m), ReqArgs(m))),
            StatusReply(m, ClientObjId(m), OK) >>
    ELSE << StatusReply(m, ClientObjId(m), NOT_FOUND) >>

\* a variant that answers a known method with the DATA frame alone
ServeRepliesDataOnly(m, methods) ==
    IF MethodName(m) \in methods
    THEN << DataReply(m, ClientObjId(m), Handler(MethodName(m), ReqArgs(m))) >>
    ELSE << StatusReply(m, ClientObjId(m), METHOD_NOT_FOUND) >>

\* the frames the INVOKE arm writes, in order
ServeReplies(m, methods) ==
    IF MethodName(m) \in methods
    THEN << DataReply(m, ClientObjId(m), Handler(MethodName(m), ReqArgs(m))),
            StatusReply(m, ClientObjId(m), OK) >>
    ELSE << StatusReply(m, ClientObjId(m), METHOD_NOT_FOUND) >>

\* INVOKE frames answered so far by this serve loop
Answered == Cardinality({k \in DOMAIN out : out[k].cmd_type = STATUS})

ServeRecv(m) ==
    /\ pc = "serve"
    /\ m.kind = "frame" /\ m.cmd_type = INVOKE => Answered < MaxServe
    /\ lastMsg' = m
    /\ io_open' = (io_open /\ m.kind # "eof")
    /\ IF m.kind # "frame"
       THEN /\ ReadFailure("add_server", m)
            /\ UNCHANGED <<out, calls>>
       ELSE IF m.cmd_type = STATUS
       THEN LET so == ServeStatusOutcome(m.blobs)
            IN  /\ Return("add_server", so.kind, so.code, <<>>, <<>>)
                /\ UNCHANGED <<out, calls>>
       ELSE IF m.cmd_type = INVOKE
       THEN /\ calls' = calls \o ServeCalls(m, server_obj.methods)
            /\ out' = out \o ServeReplies(m, server_obj.methods)
            /\ UNCHANGED <<pc, result>>
       ELSE UNCHANGED <<pc, result, out, calls>>
    /\ UNCHANGED <<build, peer, sequence, request_sequence, reply_args, objs,
                   server_obj, add_result, registered, nreq, obj_path, codec>>

(* ---------------------------------------------------------------------- *)
(* Specification                                                          *)
(* ---------------------------------------------------------------------- *)
Next ==
    \/ \E m \in {Frame(c, 0, HelloPeer, <<>>) : c \in {HELLO, STATUS}} \cup {EofMsg, BadMsg} : New(m)
    \/ \E method \in {"hi"} : InvokeCall(1, method, ArgsTable)
    \/ \E path \in {"", "foo"} : LookupCall(path)
    \/ \E names \in {<<"hi">>} : AddServerCall("ttt", names)
    \/ \E m \in InMsgs(request_sequence) : InvokeRecv(m)
    \/ \E m \in InMsgs(request_sequence) : LookupRecv(m)
    \/ \E m \in InMsgs(request_sequence) : AddRecv(m)
    \/ \E m \in InMsgs(request_sequence) : ServeRecv(m)

Spec == Init /\ [][Next]_vars

(* ---------------------------------------------------------------------- *)
(* Vocabulary of the properties                                           *)
(* ---------------------------------------------------------------------- *)
\* the values of the attributes of one variant that a frame carries
StatusCodes(m) == {m.blobs[k].n : k \in Idx(m.blobs, "Status")}
ObjIdsOf(m) == {m.blobs[k].n : k \in Idx(m.blobs, "ObjId")}
MethodsOf(m) == {m.blobs[k].s : k \in Idx(m.blobs, "Method")}
TablesOf(m) == {m.blobs[k].tbl : k \in Idx(m.blobs, "Data")}
IsFrame(m, c) == m.kind = "frame" /\ m.cmd_type = c
\* the frame answers m: same header peer and sequence, the ObjId of m
Echoes(f, m) ==
    /\ f.peer = m.peer
    /\ f.sequence = m.sequence
    /\ ObjIdsOf(f) = ObjIdsOf(m)
\* the registration was acknowledged with an object id
Registered == add_result.kind = "Ok" /\ server_obj.id # 0

(* ---------------------------------------------------------------------- *)
(* C1                                                                     *)
(* ---------------------------------------------------------------------- *)
\* C1: every request frame written by invoke, lookup or add_server carries a
\* header sequence different from 0, however many requests came before.
C1_RequestSequenceNonZero ==
    \A k \in DOMAIN out :
        out[k].cmd_type \in {INVOKE, LOOKUP, ADD_OBJECT} => out[k].sequence # 0

(* ---------------------------------------------------------------------- *)
(* C2                                                                     *)
(* ---------------------------------------------------------------------- *)
\* C2: while invoke, lookup or add_server waits for its reply, a frame that
\* changes what the operation has accumulated or ends the wait carries the
\* sequence of the request; a frame with another sequence changes nothing.
C2_OnlyOwnSequenceCounts ==
    [][ ( /\ pc \in Waiting
          /\ lastMsg'.kind = "frame"
          /\ <<pc, reply_args, objs, server_obj, add_result>>'
                 # <<pc, reply_args, objs, server_obj, add_result>> )
        => lastMsg'.sequence = request_sequence ]_vars

(* ---------------------------------------------------------------------- *)
(* C3                                                                     *)
(* ---------------------------------------------------------------------- *)
\* C3: when invoke or lookup returns Ok or Err(Status(code)), the frame it read
\* last is the STATUS frame of its own request, and the result is Ok exactly
\* when that frame carries status OK and Err(Status(code)) when it carries the
\* non-OK code.
C3_ResolvesOnOwnStatus ==
    ( /\ pc = "idle"
      /\ result.op \in {"invoke", "lookup"}
      /\ result.kind \in {"Ok", "Status"} )
    => /\ IsFrame(lastMsg, STATUS)
       /\ lastMsg.sequence = request_sequence
       /\ result.kind = "Ok" => OK \in StatusCodes(lastMsg)
       /\ result.kind = "Status" => result.code \in StatusCodes(lastMsg) \ {OK}

(* ---------------------------------------------------------------------- *)
(* C4                                                                     *)
(* ---------------------------------------------------------------------- *)
\* C4: once the daemon has answered ADD_OBJECT with a non-OK status, add_server
\* has returned Err(Status(code)) and has served no INVOKE frame.
C4_RegistrationErrorReturned ==
    add_result.kind = "Status"
    => /\ pc = "idle"
       /\ result = Res("add_server", "Status", add_result.code, <<>>, <<>>)
       /\ calls = <<>>

(* ---------------------------------------------------------------------- *)
(* C5                                                                     *)
(* ---------------------------------------------------------------------- *)
\* C5: once the daemon has answered ADD_OBJECT with DATA{ObjId = i, ObjType = t}
\* and STATUS(OK), the server object holds i and t and add_server has returned
\* i to its caller (the daemon of this model assigns i = 1, t = 5).
C5_RegistrationReturnsId ==
    Registered
    => /\ server_obj.id = 1
       /\ server_obj.objtype = 5
       /\ pc = "idle"
       /\ result = Res("add_server", "Ok", server_obj.id, <<>>, <<>>)

C8_ForeignObjIdDropped ==
    (pc = "serve" /\ Registered)
    => /\ \A k \in DOMAIN calls : calls[k].objid = server_obj.id
       /\ \A k \in DOMAIN out : out[k].cmd_type = DATA => ObjIdsOf(out[k]) = {server_obj.id}

(* ---------------------------------------------------------------------- *)
(* C9                                                                     *)
(* ---------------------------------------------------------------------- *)
\* C9: an INVOKE frame for a registered server object that is read while
\* invoke or lookup waits for its reply is answered: a frame is written for
\* it and the last one is a STATUS with the INVOKE's sequence.
C9_InvokeDuringRequestServed ==
    [][ ( /\ pc \in {"invoke", "lookup"}
          /\ IsFrame(lastMsg', INVOKE)
          /\ ObjIdsOf(lastMsg') \cap registered # {} )
        => /\ Len(out') > Len(out)
           /\ out'[Len(out')].cmd_type = STATUS
           /\ out'[Len(out')].sequence = lastMsg'.sequence ]_vars

(* ---------------------------------------------------------------------- *)
(* C10                                                                    *)
(* ---------------------------------------------------------------------- *)
\* C10: a NOTIFY frame whose ObjId is the registered server object's id and
\* whose Method names one of its handlers calls that handler exactly once, so
\* the handler calls follow the arrival order of the NOTIFY frames.
C10_NotifyCallsHandler ==
    [][ ( /\ pc = "serve"
          /\ Registered
          /\ IsFrame(lastMsg', NOTIFY)
          /\ ObjIdsOf(lastMsg') = {server_obj.id}
          /\ MethodsOf(lastMsg') # {}
          /\ MethodsOf(lastMsg') \subseteq server_obj.methods )
        => /\ Len(calls') = Len(calls) + 1
           /\ MethodsOf(lastMsg') = {calls'[Len(calls')].method} ]_vars

(* ---------------------------------------------------------------------- *)
(* A daemon that never sends the terminal STATUS                          *)
(* ---------------------------------------------------------------------- *)
\* frames that are not the reply of the request in progress: DATA of another
\* sequence, and INVOKE / NOTIFY traffic addressed to server objects
WaitFrames(rs) ==
    { Frame(DATA, NextSequence(rs), FramePeer, b) :
          b \in {<<Data(HiTable)>>, <<Data(HiTable), Data(OtherTable)>>} }
    \cup { Frame(c, NextSequence(rs), FramePeer, b) : c \in {INVOKE, NOTIFY}, b \in InvokeBlobLists }

\* the stream stays open and the STATUS of the request never arrives
NextWait ==
    \/ New(Frame(HELLO, 0, HelloPeer, <<>>))
    \/ InvokeCall(1, "hi", ArgsTable)
    \/ \E path \in {"", "foo"} : LookupCall(path)
    \/ AddServerCall("ttt", <<"hi">>)
    \/ \E m \in WaitFrames(request_sequence) : InvokeRecv(m)
    \/ \E m \in WaitFrames(request_sequence) : LookupRecv(m)
    \/ \E m \in WaitFrames(request_sequence) : AddRecv(m)

\* the caller's thread is the only one and keeps running: whenever a step
\* of it is possible (a frame is there to read), one is taken
SpecWait == Init /\ [][NextWait]_vars /\ WF_vars(NextWait)

(* ---------------------------------------------------------------------- *)
(* C11                                                                    *)
(* ---------------------------------------------------------------------- *)
\* C11: a request (invoke, lookup, the registration step of add_server) whose
\* terminal STATUS never arrives on a stream that stays open eventually
\* returns the ReplyTimeout error.
C11_ReplyTimeout ==
    (pc \in Waiting) ~> (pc = "idle" /\ result.kind = "ReplyTimeout")

(* ---------------------------------------------------------------------- *)
(* C12                                                                    *)
(* ---------------------------------------------------------------------- *)
\* C12: Connection::new returns a connection whose peer is the peer of the
\* first frame exactly when that frame is HELLO; for any other first frame it
\* returns the error InvalidData("Expected hello") and no connection.
C12_NewExpectsHello ==
    (result.op = "new" /\ lastMsg.kind = "frame")
    => IF lastMsg.cmd_type = HELLO
       THEN pc = "idle" /\ result.kind = "Ok" /\ peer = lastMsg.peer
       ELSE pc = "closed" /\ result.kind = "InvalidData"

(* ---------------------------------------------------------------------- *)
(* C13                                                                    *)
(* ---------------------------------------------------------------------- *)
\* the Data attributes of a frame in the order they appear in it
DataTables(m) ==
    LET RECURSIVE Walk(_)
        Walk(k) == IF k > Len(m.blobs) THEN <<>>
                   ELSE IF m.blobs[k].t = "Data" THEN <<m.blobs[k].tbl>> \o Walk(k + 1)
                   ELSE Walk(k + 1)
    IN  Walk(1)

\* C13: invoke keeps the last Data attribute it has received, whether the
\* Data attributes came in separate DATA frames or inside one DATA frame, and
\* on STATUS(OK) returns the one it keeps (the empty MsgTable when it has
\* received none).
C13_LastDataWins ==
    [][ pc = "invoke"
        => /\ (IsFrame(lastMsg', DATA) /\ DataTables(lastMsg') # <<>>)
                 => reply_args' = DataTables(lastMsg')[Len(DataTables(lastMsg'))]
           /\ (pc' = "idle" /\ result'.kind = "Ok")
                 => /\ result'.tbl = reply_args
                    /\ IsFrame(lastMsg', STATUS)
                    /\ OK \in StatusCodes(lastMsg') ]_vars

(* ---------------------------------------------------------------------- *)
(* C14                                                                    *)
(* ---------------------------------------------------------------------- *)
\* the values of the attributes of one variant in a frame
PathsOf(m) == {m.blobs[k].s : k \in Idx(m.blobs, "ObjPath")}
TypesOf(m) == {m.blobs[k].n : k \in Idx(m.blobs, "ObjType")}
SignaturesOf(m) == {m.blobs[k].tbl : k \in Idx(m.blobs, "Signature")}
\* the field is the attribute's value, or the default when there is none
FilledFrom(field, values, default) ==
    IF values = {} THEN field = default ELSE field \in values

C15_DecodeErrorConfined ==
    [][ (pc = "serve" /\ lastMsg'.kind = "bad") => pc' = "serve" ]_vars

(* ====================================================================== *)
(* The codecs.  A codec run converts one value: cin is the input, cout    *)
(* what the conversion returned, cpc the stage.  No connection exists.    *)
(* ====================================================================== *)
\* what a conversion returns: Ok(v), Err(e), or a panic (unwrap / expect /
\* slice index / valid_data! with debug_assertions)
COk(val) == [ok |-> TRUE, err |-> "", v |-> val]
CErr(e) == [ok |-> FALSE, err |-> e, v |-> <<>>]
CPanic == CErr("panic")
\* valid_data!(cond, msg) failed
InvalidData(b) == IF b = "debug" THEN CPanic ELSE CErr("InvalidData")

\* the connection variables of a codec run
NoConn ==
    /\ build \in {"debug", "release"}
    /\ pc = "codec"
    /\ io_open = FALSE
    /\ peer = 0
    /\ sequence = 0
    /\ request_sequence = 0
    /\ reply_args = EmptyTable
    /\ objs = <<>>
    /\ server_obj = DefaultServerObj
    /\ add_result = NoOutcome
    /\ result = NoRes
    /\ out = <<>>
    /\ calls = <<>>
    /\ lastMsg = NoMsg
    /\ registered = {}
    /\ nreq = 0
    /\ obj_path = ""

(* ---------------------------------------------------------------------- *)
(* BlobTag (blob.rs)                                                      *)
(* ---------------------------------------------------------------------- *)
\* BlobTag::SIZE, ID_MASK, LEN_MASK, ALIGNMENT
TAG_SIZE == 4
ID_MASK == 127
LEN_MASK == 16777215
ALIGNMENT == 4
\* the weight of the extended bit (bit 31) inside the first byte of the tag
EXTENDED_BIT == 128

\* a BlobTag is a BEu32: its storage is four bytes, most significant first.
\* val = len | (id << 24) | (extended << 31), stored big-endian
try_build(id, len, extended) ==
    IF id > ID_MASK \/ len < TAG_SIZE \/ len > LEN_MASK
    THEN CErr("InvalidData")
    ELSE LET i == id % (ID_MASK + 1)
             l == len % (LEN_MASK + 1)
         IN  COk(<< i + (IF extended THEN EXTENDED_BIT ELSE 0),
                    l \div 65536, (l \div 256) % 256, l % 256 >>)

\* transmute between the tag and its four bytes
from_bytes(bytes) == <<bytes[1], bytes[2], bytes[3], bytes[4]>>
to_bytes(tag) == <<tag[1], tag[2], tag[3], tag[4]>>

\* (self.0 >> 24) & ID_MASK
blob_type(tag) == tag[1] % (ID_MASK + 1)
\* a variant that reads only the low 16 bits of the length
sizeLow16(tag) == tag[3] * 256 + tag[4]
\* self.0 & LEN_MASK
size(tag) == tag[2] * 65536 + tag[3] * 256 + tag[4]
\* self.0 & EXTENDED_BIT_MASK != 0
is_extended(tag) == tag[1] >= EXTENDED_BIT
\* ALIGNMENT.wrapping_sub(size) & (ALIGNMENT - 1)
padding(tag) == (ALIGNMENT - (size(tag) % ALIGNMENT)) % ALIGNMENT
next_tag(tag) == size(tag) + padding(tag)
\* size.saturating_sub(SIZE)
inner_len(tag) == IF size(tag) >= TAG_SIZE THEN size(tag) - TAG_SIZE ELSE 0
\* valid_data!(size >= SIZE, "Tag size smaller than tag")
is_valid(tag, b) == IF size(tag) >= TAG_SIZE THEN COk(<<>>) ELSE InvalidData(b)
\* try_build(self.blob_type(), size, self.is_extended()).unwrap()
set_size(tag, sz) ==
    LET t == try_build(blob_type(tag), sz, is_extended(tag))
    IN  IF t.ok THEN t ELSE CPanic

(* ---------------------------------------------------------------------- *)
(* Tag runs                                                               *)
(* ---------------------------------------------------------------------- *)
TagIds == {0, 1, 7, 8, 126, 127, 128, 255}
TagLens == {0, 3, 4, 5, 8, 255, 256, 65535, 65536, LEN_MASK - 1, LEN_MASK,
            LEN_MASK + 1, LEN_MASK + 5}

InitTag ==
    /\ NoConn
    /\ cpc = "tag"
    /\ cin \in [id : TagIds, len : TagLens, extended : BOOLEAN]
    /\ cout = CErr("none")

\* BlobTag::try_build(id, len, extended)
TagBuild ==
    /\ cpc = "tag"
    /\ cout' = try_build(cin.id, cin.len, cin.extended)
    /\ cpc' = "tag_built"
    /\ UNCHANGED <<cin, conn>>

\* BlobTag::from_bytes(&tag.to_bytes())
TagReread ==
    /\ cpc = "tag_built"
    /\ cout.ok
    /\ cout' = COk(from_bytes(to_bytes(cout.v)))
    /\ cpc' = "tag_reread"
    /\ UNCHANGED <<cin, conn>>

NextTag == TagBuild \/ TagReread
SpecTag == InitTag /\ [][NextTag]_vars

(* ---------------------------------------------------------------------- *)
(* C16                                                                    *)
(* ---------------------------------------------------------------------- *)
\* the tag reads back the type, the length and the flag it was built from
ReadsBack(tag) ==
    /\ blob_type(tag) = cin.id
    /\ size(tag) = cin.len
    /\ is_extended(tag) = cin.extended

\* C16: try_build succeeds exactly for a type in 0..127 and a length in
\* 4..2^24-1 (it fails with InvalidData otherwise), and the tag it returns
\* reads back the same type, length and extended flag, also after to_bytes
\* followed by from_bytes.
C16_TagRoundTrip ==
    /\ cpc = "tag_built"
        => /\ cout.ok <=> (cin.id \in 0..127 /\ cin.len \in 4..(16777216 - 1))
           /\ cout.ok => ReadsBack(cout.v)
           /\ ~cout.ok => cout.err = "InvalidData"
    /\ cpc = "tag_reread" => cout.ok /\ ReadsBack(cout.v)

\* the largest extended tag has been built, written and read again
C16_Witness ==
    /\ cpc = "tag_reread"
    /\ cin = [id |-> 127, len |-> 16777215, extended |-> TRUE]
    /\ cout.v = <<255, 255, 255, 255>>

(* ---------------------------------------------------------------------- *)
(* Bytes and integers                                                     *)
(* ---------------------------------------------------------------------- *)
Zeros(k) == [i \in 1..k |-> 0]
Take(s, k) == SubSeq(s, 1, k)
Drop(s, k) == SubSeq(s, k + 1, Len(s))

\* {integer}::to_be_bytes of a w-byte two's complement integer
RECURSIVE ToBE(_, _)
ToBE(n, w) == IF w = 0 THEN <<>> ELSE ToBE(n \div 256, w - 1) \o <<n % 256>>

\* {signed integer}::from_be_bytes
RECURSIVE FromBE(_)
FromBE(bytes) ==
    IF Len(bytes) = 1 THEN (IF bytes[1] >= 128 THEN bytes[1] - 256 ELSE bytes[1])
    ELSE FromBE(Take(bytes, Len(bytes) - 1)) * 256 + bytes[Len(bytes)]

\* u16::from_be_bytes
U16FromBE(bytes) == bytes[1] * 256 + bytes[2]

(* ---------------------------------------------------------------------- *)
(* BlobMsg (blobmsg.rs)                                                   *)
(* ---------------------------------------------------------------------- *)
\* BlobMsgType
UNSPEC == 0
ARRAY == 1
TABLE == 2
\* BlobMsgType::STRING (STRING is a reserved word)
BLOBMSG_STRING == 3
INT64 == 4
INT32 == 5
INT16 == 6
BOOL == 7
INT8 == 7
DOUBLE == 8

\* struct BlobMsg { name, data: BlobMsgPayload }.  ty is the variant of the
\* payload; n holds the bytes of a String, the number of an Int8 / Int16 /
\* Int32 / Bool, the eight big-endian bytes of an Int64 or a Double, the
\* bytes of an Unknown (whose type id is id); kids holds the members of an
\* Array or a Table.  Names and strings are sequences of ASCII codes.
BlobMsg(name, ty, n, kids) == [name |-> name, ty |-> ty, id |-> 0, n |-> n, kids |-> kids]
UnknownMsg(name, id, bytes) == [name |-> name, ty |-> "Unknown", id |-> id, n |-> bytes, kids |-> <<>>]

\* BlobMsgBuilder::new_extended(id, name): tag, name length, name, NUL,
\* padding to the alignment; the tag's size is the length of the buffer
new_extended(id, name) ==
    LET head == ToBE(Len(name) % 65536, 2) \o name \o <<0>>
        name_total_len == 2 + Len(name) + 1
        name_padding == (ALIGNMENT - (name_total_len % ALIGNMENT)) % ALIGNMENT
        body == head \o Zeros(name_padding)
        tag == try_build(id, TAG_SIZE + Len(body), TRUE)
    IN  IF tag.ok THEN COk(to_bytes(tag.v) \o body) ELSE CPanic

\* a variant that appends and sets the tag's size, and leaves the padding out
push_bytesNoPadding(buffer, data) ==
    LET grown == buffer \o data
        tag == set_size(from_bytes(buffer), Len(grown))
    IN  IF tag.ok THEN COk(to_bytes(tag.v) \o Drop(grown, TAG_SIZE)) ELSE CPanic
\* BlobMsgBuilder::push_bytes: append, set the tag's size to the length of
\* the buffer, then pad the buffer to the alignment
push_bytes(buffer, data) ==
    LET grown == buffer \o data
        tag == set_size(from_bytes(buffer), Len(grown))
    IN  IF tag.ok
        THEN COk(to_bytes(tag.v) \o Drop(grown, TAG_SIZE) \o Zeros(padding(tag.v)))
        ELSE CPanic

\* the wire type id and the payload bytes of a scalar BlobMsgPayload
ScalarType(ty) ==
    CASE ty = "String" -> BLOBMSG_STRING
      [] ty = "Int64" -> INT64
      [] ty = "Int32" -> INT32
      [] ty = "Int16" -> INT16
      [] ty = "Int8" -> INT8
      [] ty = "Double" -> DOUBLE
      [] ty = "Bool" -> BOOL
ScalarBytes(msg) ==
    CASE msg.ty = "String" -> msg.n \o <<0>>
      [] msg.ty = "Int64" -> msg.n
      [] msg.ty = "Int32" -> ToBE(msg.n[1], 4)
      [] msg.ty = "Int16" -> ToBE(msg.n[1], 2)
      [] msg.ty = "Int8" -> ToBE(msg.n[1], 1)
      [] msg.ty = "Double" -> msg.n
      [] msg.ty = "Bool" -> ToBE(msg.n[1], 1)

\* TryFrom<BlobMsg> for BlobMsgBuilder, then data(): the bytes of a BlobMsg
RECURSIVE BlobMsgToBytes(_)
\* the loop of the Array and Table arms: push the bytes of every member
RECURSIVE PushMembers(_, _, _)
PushMembers(buffer, list, k) ==
    IF k > Len(list) THEN COk(buffer)
    ELSE LET inner == BlobMsgToBytes(list[k])
         IN  IF ~inner.ok THEN CPanic
             ELSE LET pushed == push_bytes(buffer, inner.v)
                  IN  IF pushed.ok THEN PushMembers(pushed.v, list, k + 1) ELSE pushed
BlobMsgToBytes(msg) ==
    IF msg.ty = "Unknown" THEN CPanic
    ELSE IF msg.ty \in {"Array", "Table"}
    THEN LET blob == new_extended(IF msg.ty = "Array" THEN ARRAY ELSE TABLE, msg.name)
         IN  IF blob.ok THEN PushMembers(blob.v, msg.kids, 1) ELSE blob
    ELSE LET blob == new_extended(ScalarType(msg.ty), msg.name)
         IN  IF blob.ok THEN push_bytes(blob.v, ScalarBytes(msg)) ELSE blob

\* payload_try_into_number: from_be_bytes of the first size_of bytes; the
\* slice self.0[..size] panics on a shorter payload
NumberBytes(bytes, width) ==
    IF Len(bytes) < width THEN CPanic ELSE COk(Take(bytes, width))
\* TryInto<String>: one trailing NUL is removed
StringBytes(bytes) ==
    IF bytes # <<>> /\ bytes[Len(bytes)] = 0 THEN Take(bytes, Len(bytes) - 1) ELSE bytes

\* a variant that takes everything behind the name as the value payload
ValueSliceToEnd(data, name_padding, upper) == SubSeq(data, name_padding + 1, Len(data))
\* &data[name_padding..tag.inner_len() - name_total_len]: the value payload
ValueSlice(data, name_padding, upper) == SubSeq(data, name_padding + 1, upper)

\* TryFrom<&[u8]> for BlobMsg
RECURSIVE BlobMsgFromBytes(_, _)
\* TryInto<Vec<BlobMsg>> over BlobIter: a blob that is cut short ends the
\* iteration, a member that fails to convert is an error
RECURSIVE MembersFromBytes(_, _)
MembersFromBytes(data, b) ==
    IF data = <<>> THEN COk(<<>>)
    ELSE IF Len(data) < TAG_SIZE
    THEN (IF b = "debug" THEN CPanic ELSE COk(<<>>))
    ELSE LET tag == from_bytes(data)
         IN  IF size(tag) < TAG_SIZE \/ Len(data) - TAG_SIZE < inner_len(tag)
             THEN (IF b = "debug" THEN CPanic ELSE COk(<<>>))
             ELSE IF next_tag(tag) > Len(data) THEN CPanic
             ELSE LET item == BlobMsgFromBytes(data, b)
                  IN  IF ~item.ok THEN item
                      ELSE LET rest == MembersFromBytes(Drop(data, next_tag(tag)), b)
                           IN  IF rest.ok THEN COk(<<item.v>> \o rest.v) ELSE rest
BlobMsgFromBytes(bytes, b) ==
    IF Len(bytes) < TAG_SIZE THEN CErr("InvalidData")
    ELSE LET tag == from_bytes(bytes)
             data == Drop(bytes, TAG_SIZE)
         IN  IF ~is_extended(tag) THEN CErr("InvalidData")
             ELSE IF Len(data) < 2 THEN CPanic
             ELSE LET name_len == U16FromBE(data)
                      data2 == Drop(data, 2)
                  IN  IF name_len > Len(data2) THEN CErr("InvalidData")
                      ELSE IF name_len = Len(data2) THEN CPanic
                      ELSE IF data2[name_len + 1] # 0 THEN InvalidData(b)
                      ELSE LET name == Take(data2, name_len)
                               data3 == Drop(data2, name_len + 1)
                               name_total_len == 2 + name_len + 1
                               name_padding == (ALIGNMENT - (name_total_len % ALIGNMENT)) % ALIGNMENT
                               upper == inner_len(tag) - name_total_len
                           IN  IF upper < name_padding \/ upper > Len(data3) THEN CPanic
                               ELSE LET payload == ValueSlice(data3, name_padding, upper)
                                        ty == blob_type(tag)
                                        Num(variant, width) ==
                                            LET nb == NumberBytes(payload, width)
                                            IN  IF nb.ok
                                                THEN COk(BlobMsg(name, variant,
                                                         IF width = 8 THEN nb.v ELSE <<FromBE(nb.v)>>, <<>>))
                                                ELSE nb
                                        List(variant) ==
                                            LET kids == MembersFromBytes(payload, b)
                                            IN  IF kids.ok THEN COk(BlobMsg(name, variant, <<>>, kids.v))
                                                ELSE kids
                                    IN  CASE ty = ARRAY -> List("Array")
                                          [] ty = TABLE -> List("Table")
                                          [] ty = BLOBMSG_STRING -> COk(BlobMsg(name, "String", StringBytes(payload), <<>>))
                                          [] ty = INT64 -> Num("Int64", 8)
                                          [] ty = INT32 -> Num("Int32", 4)
                                          [] ty = INT16 -> Num("Int16", 2)
                                          [] ty = INT8 -> Num("Int8", 1)
                                          [] ty = DOUBLE -> Num("Double", 8)
                                          [] OTHER -> COk(UnknownMsg(name, ty, payload))

(* ---------------------------------------------------------------------- *)
(* BlobMsg runs                                                           *)
(* ---------------------------------------------------------------------- *)
\* members of one array or table, and levels of nesting
MaxKids == 2
MaxDepth == 2

\* "", "k", "ab", "abc": the four paddings of the name
MsgNames == {<<>>, <<107>>, <<97, 98>>, <<97, 98, 99>>}
\* i64 / f64 values as their eight big-endian bytes: 0, -1, i64::MAX, 1.0
Int64s == {Zeros(8), [i \in 1..8 |-> 255], <<127>> \o [i \in 1..7 |-> 255]}
Doubles == {Zeros(8), <<63, 240>> \o Zeros(6)}

ScalarMsgs(names) ==
    { BlobMsg(nm, "Int16", <<v>>, <<>>) : nm \in names, v \in {-32768, -1, 0, 300, 32767} }
    \cup { BlobMsg(nm, "Int32", <<v>>, <<>>) : nm \in names, v \in {-2147483647 - 1, -1, 70000, 2147483647} }
    \cup { BlobMsg(nm, "Int64", v, <<>>) : nm \in names, v \in Int64s }
    \cup { BlobMsg(nm, "Double", v, <<>>) : nm \in names, v \in Doubles }
    \cup { BlobMsg(nm, "Bool", <<v>>, <<>>) : nm \in names, v \in {0, 1} }
    \cup { BlobMsg(nm, "String", v, <<>>) : nm \in names, v \in {<<>>, <<104>>, <<104, 105, 33, 33>>} }

\* the members used inside arrays and tables
KidMsgs ==
    { BlobMsg(<<>>, "Int16", <<-2>>, <<>>), BlobMsg(<<107>>, "Int32", <<70000>>, <<>>),
      BlobMsg(<<97, 98>>, "String", <<104>>, <<>>), BlobMsg(<<107>>, "Int64", Zeros(8), <<>>) }
KidLists == UNION { [1..k -> KidMsgs] : k \in 0..MaxKids }

\* arrays and tables of scalars, then arrays and tables around them
RECURSIVE Nested(_)
Nested(d) ==
    IF d = 1
    THEN { BlobMsg(nm, ty, <<>>, kids) :
               nm \in {<<>>, <<107>>}, ty \in {"Array", "Table"}, kids \in KidLists }
    ELSE { BlobMsg(<<107>>, ty, <<>>, <<x>>) : ty \in {"Array", "Table"}, x \in Nested(d - 1) }

MsgInputs == ScalarMsgs(MsgNames) \cup UNION { Nested(d) : d \in 1..MaxDepth }

InitMsg ==
    /\ NoConn
    /\ cpc = "msg"
    /\ cin \in MsgInputs
    /\ cout = CErr("none")

\* Vec<u8>::try_from(blobmsg)
MsgSerialize ==
    /\ cpc = "msg"
    /\ cout' = BlobMsgToBytes(cin)
    /\ cpc' = "msg_bytes"
    /\ UNCHANGED <<cin, conn>>

\* BlobMsg::try_from(&bytes[..])
MsgParse ==
    /\ cpc = "msg_bytes"
    /\ cout.ok
    /\ cout' = BlobMsgFromBytes(cout.v, build)
    /\ cpc' = "msg_parsed"
    /\ UNCHANGED <<cin, conn>>

NextMsg == MsgSerialize \/ MsgParse
SpecMsg == InitMsg /\ [][NextMsg]_vars

(* ---------------------------------------------------------------------- *)
(* C18                                                                    *)
(* ---------------------------------------------------------------------- *)
\* C18: a well-typed BlobMsg (array, table, string, int16, int32, int64, bool
\* or double, nested) serializes, and parsing the bytes returns a BlobMsg
\* with the same name, the same value type and the same value; a Bool parses
\* back as Bool.
C18_BlobMsgRoundTrip ==
    /\ cpc = "msg_bytes" => cout.ok
    /\ cpc = "msg_parsed" => cout.ok /\ cout.v = cin

(* ---------------------------------------------------------------------- *)
(* Plain blobs: UbusBlob and BlobBuilder (blob.rs)                        *)
(* ---------------------------------------------------------------------- *)
\* UbusBlobType by the type of the variant's value (0 is Unspec, raw bytes)
IntBlobIds == {1, 3, 5, 8, 11}
StrBlobIds == {2, 4, 12, 13}
ListBlobIds == {6, 7}
BoolBlobIds == {9, 10}

\* a parsed attribute: n holds the bytes its value was read from (all of the
\* payload, the four bytes of an integer, the string without its NUL, the
\* truth value), kids the members of a Signature or Data
UbusBlobVal(id, n, kids) == [id |-> id, n |-> n, kids |-> kids]

\* BlobBuilder::push_bytes into a zeroed buffer of cap bytes at offset 0:
\* the payload is written after the tag, the tag's length is 4 + |payload|,
\* and the offset advances over the padding
BlobBuilderPush(cap, id, data) ==
    IF cap < TAG_SIZE THEN CPanic
    ELSE IF TAG_SIZE + Len(data) > cap THEN CErr("InvalidData")
    ELSE LET tag == try_build(id, TAG_SIZE + Len(data), FALSE)
         IN  IF tag.ok THEN COk(to_bytes(tag.v) \o data \o Zeros(padding(tag.v)))
             ELSE tag

\* UbusBlob::to_bytes after the payload bytes of the variant are known:
\* the tag is built with the length of the payload, then tag and payload
UbusBlobToBytes(id, payload_bytes) ==
    LET tag == try_build(id, Len(payload_bytes), FALSE)
    IN  IF tag.ok THEN COk(to_bytes(tag.v) \o payload_bytes) ELSE CPanic

\* UbusBlob::from_tag_and_data
UbusBlobFromTagAndData(tag, data, b) ==
    IF ~is_valid(tag, b).ok THEN is_valid(tag, b)
    ELSE IF Len(data) < inner_len(tag) THEN InvalidData(b)
    ELSE LET payload == Take(data, inner_len(tag))
             id == blob_type(tag)
         IN  IF id = 0 THEN COk(UbusBlobVal(id, payload, <<>>))
             ELSE IF id \in IntBlobIds
             THEN (IF Len(payload) < 4 THEN CPanic
                   ELSE COk(UbusBlobVal(id, Take(payload, 4), <<>>)))
             ELSE IF id \in StrBlobIds THEN COk(UbusBlobVal(id, StringBytes(payload), <<>>))
             ELSE IF id \in BoolBlobIds
             THEN (IF payload = <<>> THEN CPanic
                   ELSE COk(UbusBlobVal(id, <<IF payload[1] # 0 THEN 1 ELSE 0>>, <<>>)))
             ELSE IF id \in ListBlobIds
             THEN LET kids == MembersFromBytes(payload, b)
                  IN  IF kids.ok THEN COk(UbusBlobVal(id, <<>>, kids.v)) ELSE kids
             ELSE CErr("InvalidBlobType")

\* UbusBlob::from_bytes
UbusBlobFromBytes(data, b) ==
    IF Len(data) < TAG_SIZE THEN InvalidData(b)
    ELSE UbusBlobFromTagAndData(from_bytes(data), Drop(data, TAG_SIZE), b)

(* ---------------------------------------------------------------------- *)
(* Plain blob runs                                                        *)
(* ---------------------------------------------------------------------- *)
\* longest payload, and the size of the builder's buffer
MaxPayload == 5
BufferCap == 64

RawPayloads == UNION { [1..k -> {0, 1, 104}] : k \in 0..MaxPayload }
\* Unspec with any payload, ObjId / ObjType with four bytes, ObjPath with a
\* NUL-terminated string, and an id that is no attribute
BlobInputs ==
    { [id |-> 0, payload |-> p] : p \in RawPayloads }
    \cup { [id |-> i, payload |-> p] : i \in {3, 5}, p \in {q \in RawPayloads : Len(q) = 4} }
    \cup { [id |-> 2, payload |-> p \o <<0>>] : p \in {q \in RawPayloads : Len(q) \in 1..3 /\ \A k \in DOMAIN q : q[k] # 0} }
    \cup { [id |-> 14, payload |-> p] : p \in {q \in RawPayloads : Len(q) = 4} }

InitBlob ==
    /\ NoConn
    /\ cpc = "blob"
    /\ cin \in BlobInputs
    /\ cout = CErr("none")

\* blob.to_bytes()
BlobToBytes ==
    /\ cpc = "blob"
    /\ cout' = UbusBlobToBytes(cin.id, cin.payload)
    /\ cpc' = "blob_bytes"
    /\ UNCHANGED <<cin, conn>>

\* UbusBlob::from_bytes(&bytes)
BlobFromBytes ==
    /\ cpc \in {"blob_bytes", "blob_pushed"}
    /\ cout.ok
    /\ cout' = UbusBlobFromBytes(cout.v, build)
    /\ cpc' = IF cpc = "blob_bytes" THEN "blob_parsed" ELSE "push_parsed"
    /\ UNCHANGED <<cin, conn>>

\* BlobBuilder::from_bytes(&mut buffer).push_bytes(id, payload)
BlobPush ==
    /\ cpc = "blob"
    /\ cout' = BlobBuilderPush(BufferCap, cin.id, cin.payload)
    /\ cpc' = "blob_pushed"
    /\ UNCHANGED <<cin, conn>>

NextBlob == BlobToBytes \/ BlobPush \/ BlobFromBytes
SpecBlob == InitBlob /\ [][NextBlob]_vars

(* ---------------------------------------------------------------------- *)
(* C17                                                                    *)
(* ---------------------------------------------------------------------- *)
\* what the parsed attribute holds, given the payload on the wire
HeldBytes(id, payload) == IF id \in StrBlobIds THEN StringBytes(payload) ELSE payload

\* C17: UbusBlob::to_bytes gives a tag whose length field is 4 + |payload|,
\* then the payload, then (-(4 + |payload|)) mod 4 zero bytes, and
\* UbusBlob::from_bytes of those bytes returns the same attribute id and the
\* same payload, for every attribute id and payload.
C17_PlainBlobRoundTrip ==
    /\ (cpc = "blob_bytes" /\ cin.id \in 0..13)
        => /\ cout.ok
           /\ cout.v = << cin.id, 0, 0, 4 + Len(cin.payload) >> \o cin.payload
                          \o Zeros((4 - ((4 + Len(cin.payload)) % 4)) % 4)
    /\ cpc = "blob_parsed"
        => /\ cout.ok
           /\ cout.v.id = cin.id
           /\ cout.v.n = HeldBytes(cin.id, cin.payload)

(* ---------------------------------------------------------------------- *)
(* JSON values and their conversion (blobmsg.rs)                          *)
(* ---------------------------------------------------------------------- *)
\* serde_json::Value.  j is the variant; n holds <<0>> / <<1>> of a Bool, the
\* eight big-endian bytes of an integer (as_i64) or of a float (as_f64), the
\* bytes of a String; kids holds the elements of an Array or the members of
\* an Object in the order the Map iterates them; k is the key of a member
\* (empty for every other value)
Json(j, n, kids) == [k |-> <<>>, j |-> j, n |-> n, kids |-> kids]
Keyed(key, v) == [v EXCEPT !.k = key]
JNull == Json("null", <<>>, <<>>)
JBool(b) == Json("bool", <<b>>, <<>>)
JInt(bytes) == Json("int", bytes, <<>>)
JStr(bytes) == Json("string", bytes, <<>>)

\* a <= b for two i64 given as big-endian bytes
RECURSIVE BytesLe(_, _)
BytesLe(a, b) ==
    IF a = <<>> THEN TRUE
    ELSE IF a[1] # b[1] THEN a[1] < b[1]
    ELSE BytesLe(Tail(a), Tail(b))
I64Le(a, b) == BytesLe(<<(a[1] + 128) % 256>> \o Tail(a), <<(b[1] + 128) % 256>> \o Tail(b))
\* `MAX as i64` / `MIN as i64` of i8, i16 and i32
I64Of(v) == ToBE(v, 8)
\* `i as i8`, `i as i16`, `i as i32`: the low bytes
CastTo(bytes, width) == FromBE(SubSeq(bytes, 8 - width + 1, 8))
\* f64::is_finite on the big-endian bytes: the exponent is not all ones
IsFinite(bytes) == ~((bytes[1] % 128) = 127 /\ bytes[2] >= 240)

\* From<Value> for BlobMsgPayload, with the name the caller gives the BlobMsg
RECURSIVE ValueToMsg(_, _)
ValueToMsg(name, v) ==
    CASE v.j = "null" -> UnknownMsg(name, 0, <<>>)
      [] v.j = "bool" -> BlobMsg(name, "Bool", v.n, <<>>)
      [] v.j = "int" ->
            IF I64Le(v.n, I64Of(127)) /\ I64Le(I64Of(-128), v.n)
            THEN BlobMsg(name, "Int8", <<CastTo(v.n, 1)>>, <<>>)
            ELSE IF I64Le(v.n, I64Of(32767)) /\ I64Le(I64Of(-32768), v.n)
            THEN BlobMsg(name, "Int16", <<CastTo(v.n, 2)>>, <<>>)
            ELSE IF I64Le(v.n, I64Of(2147483647)) /\ I64Le(I64Of(-2147483647 - 1), v.n)
            THEN BlobMsg(name, "Int32", <<CastTo(v.n, 4)>>, <<>>)
            ELSE BlobMsg(name, "Int64", v.n, <<>>)
      [] v.j = "float" -> BlobMsg(name, "Double", v.n, <<>>)
      [] v.j = "string" -> BlobMsg(name, "String", v.n, <<>>)
      [] v.j = "array" ->
            BlobMsg(name, "Array", <<>>, [i \in DOMAIN v.kids |-> ValueToMsg(<<>>, v.kids[i])])
      [] v.j = "object" ->
            BlobMsg(name, "Table", <<>>, [i \in DOMAIN v.kids |-> ValueToMsg(v.kids[i].k, v.kids[i])])

\* TryFrom<JsonObject> for MsgTable
MsgTableFromJson(members) == [i \in DOMAIN members |-> ValueToMsg(members[i].k, members[i])]

\* a < b for two keys (String's ordering)
RECURSIVE KeyLess(_, _)
KeyLess(a, b) ==
    IF b = <<>> THEN FALSE
    ELSE IF a = <<>> THEN TRUE
    ELSE IF a[1] # b[1] THEN a[1] < b[1]
    ELSE KeyLess(Tail(a), Tail(b))

\* serde_json::Map::insert: a key that is present keeps its place and takes
\* the new value; a new key goes to the end (IndexMap, feature
\* preserve_order) or to its sorted place (BTreeMap, the default)
MapInsert(members, m, map) ==
    IF \E i \in DOMAIN members : members[i].k = m.k
    THEN [i \in DOMAIN members |-> IF members[i].k = m.k THEN m ELSE members[i]]
    ELSE IF map = "IndexMap" THEN Append(members, m)
    ELSE LET before == Cardinality({i \in DOMAIN members : KeyLess(members[i].k, m.k)})
         IN  Take(members, before) \o <<m>> \o Drop(members, before)

\* TryFrom<BlobMsgPayload> for Value
RECURSIVE MsgToValue(_, _)
\* the Array arm: the values of the members, the first error ends it
RECURSIVE ValuesOf(_, _, _)
ValuesOf(list, k, map) ==
    IF k > Len(list) THEN COk(<<>>)
    ELSE LET first == MsgToValue(list[k], map)
         IN  IF ~first.ok THEN first
             ELSE LET rest == ValuesOf(list, k + 1, map)
                  IN  IF rest.ok THEN COk(<<first.v>> \o rest.v) ELSE rest
\* the Table arm and TryFrom<MsgTable> for JsonObject: insert (name, value)
\* of each member into a new Map, the first error ends it
RECURSIVE MembersOf(_, _, _, _)
MembersOf(list, k, acc, map) ==
    IF k > Len(list) THEN COk(acc)
    ELSE LET value == MsgToValue(list[k], map)
         IN  IF ~value.ok THEN value
             ELSE MembersOf(list, k + 1, MapInsert(acc, Keyed(list[k].name, value.v), map), map)
MsgToValue(msg, map) ==
    CASE msg.ty = "Bool" -> COk(JBool(IF msg.n[1] # 0 THEN 1 ELSE 0))
      [] msg.ty \in {"Int8", "Int16", "Int32"} -> COk(JInt(I64Of(msg.n[1])))
      [] msg.ty = "Int64" -> COk(JInt(msg.n))
      [] msg.ty = "Double" ->
            IF IsFinite(msg.n) THEN COk(Json("float", msg.n, <<>>)) ELSE CErr("InvalidData")
      [] msg.ty = "String" -> COk(JStr(msg.n))
      [] msg.ty = "Array" ->
            LET vs == ValuesOf(msg.kids, 1, map)
            IN  IF vs.ok THEN COk(Json("array", <<>>, vs.v)) ELSE vs
      [] msg.ty = "Table" ->
            LET ms == MembersOf(msg.kids, 1, <<>>, map)
            IN  IF ms.ok THEN COk(Json("object", <<>>, ms.v)) ELSE ms
      [] msg.ty = "Unknown" -> CErr("InvalidData")

\* TryFrom<MsgTable> for JsonObject
JsonFromMsgTable(table, map) == MembersOf(table, 1, <<>>, map)

(* ---------------------------------------------------------------------- *)
(* JSON runs                                                              *)
(* ---------------------------------------------------------------------- *)
\* members of one object, elements of one array
MaxMembers == 2

\* "a", "ab", "b"
JsonKeys == {<<97>>, <<97, 98>>, <<98>>}
\* the integers around the limits of i8, i16, i32 and i64
JsonInts ==
    { I64Of(v) : v \in {0, 1, -1, 127, 128, -128, -129, 300, 32767, 32768, -32768, -32769,
                        2147483647, -2147483647 - 1} }
    \cup { <<0, 0, 0, 0, 128, 0, 0, 0>>, <<255, 255, 255, 255, 127, 255, 255, 255>>,
           <<127>> \o [i \in 1..7 |-> 255], <<128>> \o Zeros(7) }
JsonScalars == {JNull, JBool(0), JBool(1), JStr(<<>>), JStr(<<104, 105>>)} \cup { JInt(i) : i \in JsonInts }
\* the values used inside arrays and objects
SmallJson == {JNull, JBool(1), JInt(I64Of(1)), JInt(I64Of(300)), JStr(<<104, 105>>)}

\* the keys of a Map in the order it iterates them: any order of insertion
\* for IndexMap, the sorted order for BTreeMap
KeyLists(map) ==
    { ks \in UNION { [1..n -> JsonKeys] : n \in 0..MaxMembers } :
          /\ \A i, j \in DOMAIN ks : i # j => ks[i] # ks[j]
          /\ map = "BTreeMap" => \A i, j \in DOMAIN ks : i < j => KeyLess(ks[i], ks[j]) }
ObjectsOver(values, map) ==
    UNION { { [i \in DOMAIN ks |-> Keyed(ks[i], vs[i])] : vs \in [DOMAIN ks -> values] } :
            ks \in KeyLists(map) }
ArraysOver(values) ==
    { Json("array", <<>>, es) : es \in UNION { [1..n -> values] : n \in 0..MaxMembers } }

\* top-level objects: flat ones, and one member "a" holding any scalar, an
\* array or an object
JsonInputs(map) ==
    ObjectsOver(SmallJson, map)
    \cup { <<Keyed(<<97>>, v)>> :
             v \in JsonScalars \cup ArraysOver(SmallJson)
                   \cup { Json("object", <<>>, o) : o \in ObjectsOver(SmallJson, map) } }

InitJson ==
    /\ NoConn
    /\ cpc = "json"
    /\ \E map \in {"IndexMap", "BTreeMap"} :
          cin \in { [map |-> map, json |-> o] : o \in JsonInputs(map) }
    /\ cout = CErr("none")

\* MsgTable::try_from(json_object)
JsonToTable ==
    /\ cpc = "json"
    /\ cout' = COk(MsgTableFromJson(cin.json))
    /\ cpc' = "json_table"
    /\ UNCHANGED <<cin, conn>>

\* JsonObject::try_from(msgtable)
TableToJson ==
    /\ cpc = "json_table"
    /\ cout' = JsonFromMsgTable(cout.v, cin.map)
    /\ cpc' = "json_back"
    /\ UNCHANGED <<cin, conn>>

NextJson == JsonToTable \/ TableToJson
SpecJson == InitJson /\ [][NextJson]_vars

(* ---------------------------------------------------------------------- *)
(* C19                                                                    *)
(* ---------------------------------------------------------------------- *)
\* the i64 is the sign extension of its low width bytes
FitsIn(bytes, width) ==
    LET sign == IF bytes[8 - width + 1] >= 128 THEN 255 ELSE 0
    IN  \A i \in 1..(8 - width) : bytes[i] = sign

\* C19: a JSON integer converts to the narrowest of INT16, INT32 and INT64
\* that holds it: INT16 (wire type 6) for -32768..32767, INT32 (5) for every
\* other value of the i32 range, INT64 (4) for every other value.
C19_NarrowestInteger ==
    cpc = "json_table"
    => \A i \in DOMAIN cin.json :
          cin.json[i].j = "int"
          => LET ty == cout.v[i].ty
                 n == cin.json[i].n
             IN  /\ ty = IF FitsIn(n, 2) THEN "Int16"
                         ELSE IF FitsIn(n, 4) THEN "Int32" ELSE "Int64"
                 /\ ScalarType(ty) = IF FitsIn(n, 2) THEN 6
                                     ELSE IF FitsIn(n, 4) THEN 5 ELSE 4

(* ---------------------------------------------------------------------- *)
(* C20                                                                    *)
(* ---------------------------------------------------------------------- *)
\* C20: a JSON object built from null, booleans, integers, strings, arrays
\* and objects converts to a MsgTable and back to JSON successfully, and the
\* result is an equal object with its keys in the same order at every
\* nesting level (null is preserved).
C20_JsonRoundTrip ==
    /\ cpc = "json_table" => cout.ok
    /\ cpc = "json_back" => cout.ok /\ cout.v = cin.json

(* ---------------------------------------------------------------------- *)
(* Frames: UbusMsgHeader, UbusMsg and BlobIter (ubusmsg.rs, blob.rs)      *)
(* ---------------------------------------------------------------------- *)
\* values!(UbusCmdType(u8)): the byte of every command
UbusCmdType ==
    [HELLO |-> HELLO, STATUS |-> STATUS, DATA |-> DATA, PING |-> PING,
     LOOKUP |-> LOOKUP, INVOKE |-> INVOKE, ADD_OBJECT |-> ADD_OBJECT,
     REMOVE_OBJECT |-> REMOVE_OBJECT, SUBSCRIBE |-> SUBSCRIBE,
     UNSUBSCRIBE |-> UNSUBSCRIBE, NOTIFY |-> NOTIFY, MONITOR |-> MONITOR]

\* struct UbusMsgHeader (repr(C)): version and cmd_type are bytes, sequence
\* is a BEu16, peer a BEu32 kept as its four bytes
UbusMsgHeader(version, cmd_type, seq, peer_bytes) ==
    [version |-> version, cmd_type |-> cmd_type, sequence |-> seq, peer |-> peer_bytes]
\* UbusMsgHeader::to_bytes / from_bytes: a transmute of the eight bytes
HeaderToBytes(h) == <<h.version, h.cmd_type>> \o ToBE(h.sequence, 2) \o h.peer
HeaderFromBytes(buffer) ==
    UbusMsgHeader(buffer[1], buffer[2], U16FromBE(SubSeq(buffer, 3, 4)), SubSeq(buffer, 5, 8))

\* what BlobIter::next hands back: None, or Some(blob) with the data that
\* remains behind it
IterNone(data) == [last |-> "None", item |-> UbusBlobVal(0, <<>>, <<>>), data |-> data]
IterSome(blob, data) == [last |-> "Some", item |-> blob, data |-> data]

\* BlobIter::next after UbusBlob::from_bytes(self.data): its error ends the
\* iteration with None, its panic unwinds; on Ok the data advances by
\* next_tag() of the first tag, and a slice start behind the end panics
IterAdvance(blob, data) ==
    IF ~blob.ok /\ blob.err = "panic" THEN CPanic
    ELSE IF ~blob.ok THEN COk(IterNone(data))
    ELSE IF next_tag(from_bytes(data)) > Len(data) THEN CPanic
    ELSE COk(IterSome(blob.v, Drop(data, next_tag(from_bytes(data)))))

\* BlobIter::next: None on empty data and when UbusBlob::from_bytes fails;
\* otherwise the data advances by next_tag() of its first tag
BlobIterNext(data, b) ==
    IF data = <<>> THEN COk(IterNone(data))
    ELSE IterAdvance(UbusBlobFromBytes(data, b), data)

\* BlobIter::new(data).map(..).try_collect(): every item up to the first None
RECURSIVE BlobIterCollect(_, _)
CollectPush(item, rest) == IF rest.ok THEN COk(<<item>> \o rest.v) ELSE rest
CollectStep(step, b) ==
    IF ~step.ok THEN step
    ELSE IF step.v.last = "None" THEN COk(<<>>)
    ELSE CollectPush(step.v.item, BlobIterCollect(step.v.data, b))
BlobIterCollect(data, b) == CollectStep(BlobIterNext(data, b), b)

\* the value UbusMsg::from_io returns once the blobs are collected
FrameRead(header, blobs, rest) ==
    IF blobs.ok THEN COk([header |-> header, blobs |-> blobs.v, rest |-> rest]) ELSE blobs

\* UbusMsg::from_io over a stream that holds io and then ends: io.get of more
\* bytes than are left is an IO error.  Ok carries the header, the blobs and
\* what is left on the stream.
UbusMsgFromIo(io, b) ==
    IF Len(io) < HEADER_SIZE THEN CErr("IO")
    ELSE LET header == HeaderFromBytes(Take(io, HEADER_SIZE))
             io2 == Drop(io, HEADER_SIZE)
         IN  IF header.version # CURRENT THEN InvalidData(b)
             ELSE IF Len(io2) < TAG_SIZE THEN CErr("IO")
             ELSE LET tag == from_bytes(io2)
                      io3 == Drop(io2, TAG_SIZE)
                  IN  IF ~is_valid(tag, b).ok THEN is_valid(tag, b)
                      ELSE IF Len(io3) < inner_len(tag) THEN CErr("IO")
                      ELSE FrameRead(header, BlobIterCollect(Take(io3, inner_len(tag)), b),
                                     Drop(io3, inner_len(tag)))

\* the loop of UbusMsg::to_bytes: the bytes of every blob, one after another
RECURSIVE BlobsToBytes(_, _)
BlobsToBytes(blobs, k) ==
    IF k > Len(blobs) THEN COk(<<>>)
    ELSE LET first == UbusBlobToBytes(blobs[k].id, blobs[k].payload)
         IN  IF ~first.ok THEN first
             ELSE LET rest == BlobsToBytes(blobs, k + 1)
                  IN  IF rest.ok THEN COk(first.v \o rest.v) ELSE rest

\* UbusMsg::to_bytes: header, container tag of type UNSPEC and length
\* 4 + |blobs' bytes|, blobs' bytes
UbusMsgToBytes(header, blobs) ==
    LET ubusmsg_blobs_buffer == BlobsToBytes(blobs, 1)
    IN  IF ~ubusmsg_blobs_buffer.ok THEN ubusmsg_blobs_buffer
        ELSE LET tag == try_build(UNSPEC, TAG_SIZE + Len(ubusmsg_blobs_buffer.v), FALSE)
             IN  IF tag.ok
                 THEN COk(HeaderToBytes(header) \o to_bytes(tag.v) \o ubusmsg_blobs_buffer.v)
                 ELSE CPanic

(* ---------------------------------------------------------------------- *)
(* Frame runs                                                             *)
(* ---------------------------------------------------------------------- *)
\* attributes of one frame
MaxAttrs == 2

\* attributes as their id and payload bytes: raw bytes, Status(0), ObjId(7),
\* ObjPath("hi"), Method("m")
MsgAttrs ==
    { [id |-> 0, payload |-> <<1, 2, 3, 4, 5>>], [id |-> 1, payload |-> <<0, 0, 0, 0>>],
      [id |-> 3, payload |-> <<0, 0, 0, 7>>], [id |-> 2, payload |-> <<104, 105, 0>>],
      [id |-> 4, payload |-> <<109, 0>>] }
\* integer attributes whose payload is not four bytes wide, and a tag of an
\* unknown type
OddAttrs ==
    { [id |-> 1, payload |-> <<0, 3>>], [id |-> 3, payload |-> <<>>],
      [id |-> 3, payload |-> <<0, 0, 0, 7, 9>>], [id |-> 5, payload |-> <<0, 0, 1>>],
      [id |-> 8, payload |-> <<0, 0, 0, 0, 0, 0, 0, 2>>], [id |-> 14, payload |-> <<1>>] }

\* headers of version CURRENT, with the name of their command
MsgHeaders ==
    { [cmd |-> c, header |-> UbusMsgHeader(CURRENT, UbusCmdType[c], s, p)] :
          c \in DOMAIN UbusCmdType, s \in {0, 1, 256, 65535},
          p \in {Zeros(4), <<0, 0, 1, 0>>, <<255, 255, 255, 255>>} }
AttrLists(attrs) == UNION { [1..k -> attrs] : k \in 0..MaxAttrs }

\* the wire form of an attribute: tag with length 4 + |payload|, payload,
\* padding (what BlobBuilder::push_bytes writes)
WireBlob(a) == BlobBuilderPush(TAG_SIZE + Len(a.payload) + ALIGNMENT, a.id, a.payload).v
RECURSIVE WireBody(_)
WireBody(list) == IF list = <<>> THEN <<>> ELSE WireBlob(Head(list)) \o WireBody(Tail(list))
\* frame bodies: every prefix of a well-formed body, and tags whose length
\* field is below 4
Bodies ==
    UNION { { Take(WireBody(l), k) : k \in 0..Len(WireBody(l)) } :
                l \in AttrLists(MsgAttrs \cup OddAttrs) }
    \cup { <<3, 0, 0, l>> \o Zeros(4) : l \in 0..3 }
\* what follows a frame on the stream: the start of the next frame
Trailer == <<CURRENT, STATUS, 0, 1>>

InitFrame ==
    /\ NoConn
    /\ \/ /\ cpc = "frame"
          /\ cin \in { [cmd |-> h.cmd, header |-> h.header, blobs |-> l, bytes |-> <<>>] :
                           h \in MsgHeaders, l \in AttrLists(MsgAttrs) }
       \/ /\ cpc = "body"
          /\ cin \in { [cmd |-> "DATA", header |-> UbusMsgHeader(CURRENT, DATA, 1, Zeros(4)),
                        blobs |-> <<>>, bytes |-> bs] : bs \in Bodies }
    /\ cout = CErr("none")

\* message.to_bytes()
FrameToBytes ==
    /\ cpc = "frame"
    /\ cout' = UbusMsgToBytes(cin.header, cin.blobs)
    /\ cpc' = "frame_bytes"
    /\ UNCHANGED <<cin, conn>>

\* UbusMsg::from_io on a stream that holds the bytes and the next frame
FrameFromIo ==
    /\ cpc = "frame_bytes"
    /\ cout.ok
    /\ cout' = UbusMsgFromIo(cout.v \o Trailer, build)
    /\ cpc' = "frame_read"
    /\ UNCHANGED <<cin, conn>>

\* UbusMsg::from_io on a frame whose container announces the body
BodyFromIo ==
    /\ cpc = "body"
    /\ cout' = UbusMsgFromIo(HeaderToBytes(cin.header)
                                \o to_bytes(try_build(UNSPEC, TAG_SIZE + Len(cin.bytes), FALSE).v)
                                \o cin.bytes, build)
    /\ cpc' = "body_read"
    /\ UNCHANGED <<cin, conn>>

\* UbusBlob::from_bytes(&body)
BodyFromBytes ==
    /\ cpc = "body"
    /\ cout' = UbusBlobFromBytes(cin.bytes, build)
    /\ cpc' = "blob_read"
    /\ UNCHANGED <<cin, conn>>

\* BlobIter::new(body)
IterNew ==
    /\ cpc = "body"
    /\ cout' = COk(IterSome(UbusBlobVal(0, <<>>, <<>>), cin.bytes))
    /\ cpc' = "iter"
    /\ UNCHANGED <<cin, conn>>

\* iter.next(), until it has returned None
IterNext ==
    /\ cpc = "iter"
    /\ cout.ok
    /\ cout.v.last = "Some"
    /\ cout' = BlobIterNext(cout.v.data, build)
    /\ UNCHANGED <<cpc, cin, conn>>

NextFrame == FrameToBytes \/ FrameFromIo \/ BodyFromIo \/ BodyFromBytes \/ IterNew \/ IterNext
SpecFrame == InitFrame /\ [][NextFrame]_vars

(* ---------------------------------------------------------------------- *)
(* C21                                                                    *)
(* ---------------------------------------------------------------------- *)
\* the first tag of data announces more bytes than data holds, or data is
\* too short to hold a tag
CutShort(data) == Len(data) < TAG_SIZE \/ size(from_bytes(data)) > Len(data)
\* walking the blobs of a body by their announced lengths meets one that is
\* cut short
RECURSIVE Truncated(_)
Truncated(data) ==
    IF data = <<>> THEN FALSE
    ELSE IF CutShort(data) THEN TRUE
    ELSE IF size(from_bytes(data)) < TAG_SIZE THEN FALSE
    ELSE Truncated(Drop(data, next_tag(from_bytes(data))))

\* C21: decoding a frame body in which an attribute's tag announces more
\* bytes than remain, or in which fewer than 4 bytes are left for a tag,
\* returns an InvalidData error from UbusMsg::from_io and from
\* UbusBlob::from_bytes; it never panics.
C21_TruncatedIsInvalidData ==
    /\ (cpc = "body_read" /\ Truncated(cin.bytes))
        => (~cout.ok /\ cout.err = "InvalidData")
    /\ (cpc = "blob_read" /\ CutShort(cin.bytes))
        => (~cout.ok /\ cout.err = "InvalidData")

(* ---------------------------------------------------------------------- *)
(* JSON text: serde_json::from_str and MsgTable::try_from(&str)           *)
(* (blobmsg.rs)                                                           *)
(* ---------------------------------------------------------------------- *)
\* a text is a sequence of characters; the characters of the runs and
\* their ASCII codes
Chars == <<"{", "}", "[", "]", " ", "\"", ":", ",", "-", "0", "1", "7",
           "a", "b", "e", "f", "l", "n", "r", "s", "t", "u">>
Codes == <<123, 125, 91, 93, 32, 34, 58, 44, 45, 48, 49, 55,
           97, 98, 101, 102, 108, 110, 114, 115, 116, 117>>
CharCode(c) == Codes[CHOOSE i \in DOMAIN Chars : Chars[i] = c]
Digits == {"0", "1", "7"}
DigitValue(c) == CharCode(c) - CharCode("0")

\* what a parsing step returns: the value and the index behind it, or a
\* syntax error
Parsed(v, next) == [ok |-> TRUE, v |-> v, next |-> next]
SyntaxError == [ok |-> FALSE, v |-> JNull, next |-> 0]

\* the index of the first character at or after i that is no whitespace
RECURSIVE SkipWs(_, _)
SkipWs(s, i) == IF i <= Len(s) /\ s[i] = " " THEN SkipWs(s, i + 1) ELSE i

\* the run of digits from i on: its decimal value and the index behind it
RECURSIVE DigitsRun(_, _, _)
DigitsRun(s, i, acc) ==
    IF i <= Len(s) /\ s[i] \in Digits THEN DigitsRun(s, i + 1, acc * 10 + DigitValue(s[i]))
    ELSE [n |-> acc, next |-> i]

\* a number without fraction and exponent: an optional minus, then 0 or a
\* run of digits that does not start with 0; "-0" is the float -0.0
ParseNumber(s, i) ==
    LET neg == s[i] = "-"
        start == IF neg THEN i + 1 ELSE i
    IN  IF start > Len(s) \/ s[start] \notin Digits THEN SyntaxError
        ELSE IF s[start] = "0"
        THEN (IF start + 1 <= Len(s) /\ s[start + 1] \in Digits THEN SyntaxError
              ELSE IF neg THEN Parsed(Json("float", <<128>> \o Zeros(7), <<>>), start + 1)
              ELSE Parsed(JInt(I64Of(0)), start + 1))
        ELSE LET run == DigitsRun(s, start, 0)
             IN  Parsed(JInt(I64Of(IF neg THEN 0 - run.n ELSE run.n)), run.next)

\* a string whose opening quote stands before i: the bytes up to the
\* closing quote
ParseString(s, i) ==
    LET closing == {j \in i..Len(s) : s[j] = "\""}
    IN  IF closing = {} THEN SyntaxError
        ELSE LET j == SetMin(closing)
             IN  Parsed(JStr([k \in 1..(j - i) |-> CharCode(s[i + k - 1])]), j + 1)

\* null, true, false
ParseLiteral(s, i, word, v) ==
    IF i + Len(word) - 1 <= Len(s) /\ SubSeq(s, i, i + Len(word) - 1) = word
    THEN Parsed(v, i + Len(word))
    ELSE SyntaxError

RECURSIVE ParseValue(_, _, _)
\* the elements of an array whose "[" stands before i; first tells that
\* no element has been read yet
RECURSIVE ParseElements(_, _, _, _, _)
ParseElements(s, i, acc, first, map) ==
    LET j == SkipWs(s, i)
    IN  IF j > Len(s) THEN SyntaxError
        ELSE IF first /\ s[j] = "]" THEN Parsed(Json("array", <<>>, acc), j + 1)
        ELSE LET v == ParseValue(s, j, map)
                 k == SkipWs(s, v.next)
             IN  IF ~v.ok \/ k > Len(s) THEN SyntaxError
                 ELSE IF s[k] = "," THEN ParseElements(s, k + 1, Append(acc, v.v), FALSE, map)
                 ELSE IF s[k] = "]" THEN Parsed(Json("array", <<>>, Append(acc, v.v)), k + 1)
                 ELSE SyntaxError
\* the members of an object whose "{" stands before i; a key that repeats
\* replaces the earlier member (Map::insert)
RECURSIVE ParseMembers(_, _, _, _, _)
ParseMembers(s, i, acc, first, map) ==
    LET j == SkipWs(s, i)
    IN  IF j > Len(s) THEN SyntaxError
        ELSE IF first /\ s[j] = "}" THEN Parsed(Json("object", <<>>, acc), j + 1)
        ELSE IF s[j] # "\"" THEN SyntaxError
        ELSE LET key == ParseString(s, j + 1)
                 colon == SkipWs(s, key.next)
             IN  IF ~key.ok \/ colon > Len(s) THEN SyntaxError
                 ELSE IF s[colon] # ":" THEN SyntaxError
                 ELSE LET v == ParseValue(s, colon + 1, map)
                          k == SkipWs(s, v.next)
                          grown == MapInsert(acc, Keyed(key.v.n, v.v), map)
                      IN  IF ~v.ok \/ k > Len(s) THEN SyntaxError
                          ELSE IF s[k] = "," THEN ParseMembers(s, k + 1, grown, FALSE, map)
                          ELSE IF s[k] = "}" THEN Parsed(Json("object", <<>>, grown), k + 1)
                          ELSE SyntaxError
ParseValue(s, i0, map) ==
    LET i == SkipWs(s, i0)
    IN  IF i > Len(s) THEN SyntaxError
        ELSE CASE s[i] = "{" -> ParseMembers(s, i + 1, <<>>, TRUE, map)
               [] s[i] = "[" -> ParseElements(s, i + 1, <<>>, TRUE, map)
               [] s[i] = "\"" -> ParseString(s, i + 1)
               [] s[i] = "-" \/ s[i] \in Digits -> ParseNumber(s, i)
               [] s[i] = "n" -> ParseLiteral(s, i, <<"n", "u", "l", "l">>, JNull)
               [] s[i] = "t" -> ParseLiteral(s, i, <<"t", "r", "u", "e">>, JBool(1))
               [] s[i] = "f" -> ParseLiteral(s, i, <<"f", "a", "l", "s", "e">>, JBool(0))
               [] OTHER -> SyntaxError

\* serde_json::from_str::<Value>: one value, whitespace around it, and
\* nothing else; the empty text is an error (EOF while parsing a value)
FromStr(s, map) ==
    LET v == ParseValue(s, 1, map)
    IN  IF ~v.ok THEN SyntaxError
        ELSE IF SkipWs(s, v.next) <= Len(s) THEN SyntaxError
        ELSE v

\* MsgTable::try_from(json: &str): from_str(json).expect("Invalid JSON"),
\* then the members of an object, InvalidData for any other value
MsgTableFromStr(json, map) ==
    LET parsed == FromStr(json, map)
    IN  IF ~parsed.ok THEN CPanic
        ELSE IF parsed.v.j = "object" THEN COk(MsgTableFromJson(parsed.v.kids))
        ELSE CErr("InvalidData")

(* ---------------------------------------------------------------------- *)
(* Argument runs                                                          *)
(* ---------------------------------------------------------------------- *)
\* characters of a generated text
MaxText == 3

\* every text of up to MaxText characters over the punctuation, and some
\* longer ones: {"a":1}  {"a":1,"a":[]}  {"b":null,"a":true}  { "a" : { } }
\* null  false  -17  01  {"a":1,}  [1,7]
Texts ==
    UNION { [1..n -> {"{", "}", "[", "]", " ", "\"", ":", ",", "1", "a"}] : n \in 0..MaxText }
    \cup { <<"{", "\"", "a", "\"", ":", "1", "}">>,
           <<"{", "\"", "a", "\"", ":", "1", ",", "\"", "a", "\"", ":", "[", "]", "}">>,
           <<"{", "\"", "b", "\"", ":", "n", "u", "l", "l", ",", "\"", "a", "\"", ":", "t", "r", "u", "e", "}">>,
           <<"{", " ", "\"", "a", "\"", " ", ":", " ", "{", " ", "}", " ", "}">>,
           <<"n", "u", "l", "l">>, <<"f", "a", "l", "s", "e">>, <<"-", "1", "7">>, <<"0", "1">>,
           <<"{", "\"", "a", "\"", ":", "1", ",", "}">>, <<"[", "1", ",", "7", "]">> }

InitArgs ==
    /\ NoConn
    /\ cpc = "args"
    /\ cin \in [map : {"IndexMap", "BTreeMap"}, text : Texts]
    /\ cout = CErr("none")

\* MsgTable::try_from(req_args)
ArgsToTable ==
    /\ cpc = "args"
    /\ cout' = MsgTableFromStr(cin.text, cin.map)
    /\ cpc' = "args_table"
    /\ UNCHANGED <<cin, conn>>

NextArgs == ArgsToTable
SpecArgs == InitArgs /\ [][NextArgs]_vars

(* ---------------------------------------------------------------------- *)
(* C22                                                                    *)
(* ---------------------------------------------------------------------- *)
\* C22: MsgTable::try_from("") returns Ok with an empty MsgTable; it returns
\* no error and does not panic.
C22_EmptyArgsIsEmptyTable ==
    (cpc = "args_table" /\ cin.text = <<>>) => (cout.ok /\ cout.v = <<>>)

(* ---------------------------------------------------------------------- *)
(* C23                                                                    *)
(* ---------------------------------------------------------------------- *)
\* C23: the command-type byte written to the wire, and read back from it,
\* is HELLO=0, STATUS=1, DATA=2, PING=3, LOOKUP=4, INVOKE=5, ADD_OBJECT=6,
\* REMOVE_OBJECT=7, SUBSCRIBE=8, UNSUBSCRIBE=9, NOTIFY=10, MONITOR=11.
C23_CmdTypeBytes ==
    LET byte == [HELLO |-> 0, STATUS |-> 1, DATA |-> 2, PING |-> 3, LOOKUP |-> 4,
                 INVOKE |-> 5, ADD_OBJECT |-> 6, REMOVE_OBJECT |-> 7, SUBSCRIBE |-> 8,
                 UNSUBSCRIBE |-> 9, NOTIFY |-> 10, MONITOR |-> 11]
    IN  /\ (cpc = "frame_bytes" /\ cout.ok) => cout.v[2] = byte[cin.cmd]
        /\ (cpc = "frame_read" /\ cout.ok) => cout.v.header.cmd_type = byte[cin.cmd]

(* ---------------------------------------------------------------------- *)
(* C24                                                                    *)
(* ---------------------------------------------------------------------- *)
\* data holds, whole, an attribute of type Status (1), ObjId (3), ObjType
\* (5) or Target (8) whose payload is not four bytes long
WrongWidth(data) ==
    /\ ~CutShort(data)
    /\ blob_type(from_bytes(data)) \in {1, 3, 5, 8}
    /\ size(from_bytes(data)) >= TAG_SIZE
    /\ inner_len(from_bytes(data)) # 4

\* C24: decoding an integer attribute (Status, ObjId, ObjType, Target) whose
\* payload is shorter or longer than 4 bytes returns an InvalidData error;
\* it never yields a value and never panics.
C24_WrongWidthIsInvalidData ==
    (cpc = "blob_read" /\ WrongWidth(cin.bytes))
        => (~cout.ok /\ cout.err = "InvalidData")

(* ---------------------------------------------------------------------- *)
(* BlobMsgBuilder runs (blobmsg.rs)                                       *)
(* ---------------------------------------------------------------------- *)
\* the typed push calls: the big-endian bytes of the number, the string and
\* its NUL, through push_bytes
push_int64(buffer, bytes) == push_bytes(buffer, bytes)
push_int32(buffer, data) == push_bytes(buffer, ToBE(data, 4))
push_int16(buffer, data) == push_bytes(buffer, ToBE(data, 2))
push_int8(buffer, data) == push_bytes(buffer, ToBE(data, 1))
push_double(buffer, bytes) == push_bytes(buffer, bytes)
push_bool(buffer, data) == push_bytes(buffer, ToBE(IF data THEN 1 ELSE 0, 1))
push_str(buffer, data) == push_bytes(buffer, data \o <<0>>)

\* push calls on one builder
MaxPushes == 2

\* byte strings handed to push_bytes, and members pushed into an array or a
\* table: a scalar, and an array that holds one
PushedBytes == { [i \in 1..k |-> 1] : k \in {0, 1, 2, 3, 5} }
PushedMsgs ==
    { BlobMsg(<<>>, "Int16", <<-2>>, <<>>), BlobMsg(<<97, 98>>, "String", <<104>>, <<>>),
      BlobMsg(<<107>>, "Array", <<>>, <<BlobMsg(<<>>, "Int8", <<5>>, <<>>)>>),
      BlobMsg(<<>>, "Table", <<>>, <<>>) }

\* a run holds the buffer of the builder and the number of pushes so far
Builder(buffer, pushes) == [buffer |-> buffer, pushes |-> pushes]

InitBuilder ==
    /\ NoConn
    /\ cpc = "builder"
    /\ cin \in [id : {ARRAY, TABLE, BLOBMSG_STRING, INT32}, name : MsgNames]
    /\ cout = CErr("none")

\* BlobMsgBuilder::new_extended(id, name)
NewExtended ==
    /\ cpc = "builder"
    /\ LET blob == new_extended(cin.id, cin.name)
       IN  cout' = IF blob.ok THEN COk(Builder(blob.v, 0)) ELSE blob
    /\ cpc' = "built"
    /\ UNCHANGED <<cin, conn>>

\* one push call on the builder; pushed is what the call returns as the
\* new buffer
Push(pushed) ==
    /\ cpc = "built"
    /\ cout.ok
    /\ cout.v.pushes < MaxPushes
    /\ cout' = IF pushed.ok THEN COk(Builder(pushed.v, cout.v.pushes + 1)) ELSE pushed
    /\ UNCHANGED <<cpc, cin, conn>>

PushBytes == \E data \in PushedBytes : Push(push_bytes(cout.v.buffer, data))
PushInt64 == \E data \in Int64s : Push(push_int64(cout.v.buffer, data))
PushInt32 == \E data \in {-1, 70000} : Push(push_int32(cout.v.buffer, data))
PushInt16 == \E data \in {-2, 300} : Push(push_int16(cout.v.buffer, data))
PushInt8 == \E data \in {-1, 5} : Push(push_int8(cout.v.buffer, data))
PushDouble == \E data \in Doubles : Push(push_double(cout.v.buffer, data))
PushBool == \E data \in BOOLEAN : Push(push_bool(cout.v.buffer, data))
PushStr == \E data \in {<<>>, <<104>>, <<104, 105, 33, 33>>} : Push(push_str(cout.v.buffer, data))
\* blob.push_bytes(inner_blob.data()): a member of an array or a table
PushMember ==
    \E item \in PushedMsgs :
        LET inner_blob == BlobMsgToBytes(item)
        IN  Push(IF inner_blob.ok THEN push_bytes(cout.v.buffer, inner_blob.v) ELSE CPanic)

NextBuilder ==
    \/ NewExtended
    \/ PushBytes
    \/ PushInt64
    \/ PushInt32
    \/ PushInt16
    \/ PushInt8
    \/ PushDouble
    \/ PushBool
    \/ PushStr
    \/ PushMember
SpecBuilder == InitBuilder /\ [][NextBuilder]_vars

(* ---------------------------------------------------------------------- *)
(* C25                                                                    *)
(* ---------------------------------------------------------------------- *)
\* the length field of the tag at the head of the builder's buffer
BuilderSize == size(from_bytes(cout.v.buffer))

\* C25: after every operation of BlobMsgBuilder (new_extended, push_bytes and
\* the typed push calls, in any sequence, nested arrays and tables included)
\* the buffer length is a multiple of 4 and equals the tag's length field
\* plus (-length) mod 4 padding bytes, which are zero.
C25_BuilderAligned ==
    cpc = "built"
    => /\ cout.ok
       /\ Len(cout.v.buffer) % 4 = 0
       /\ Len(cout.v.buffer) = BuilderSize + ((0 - BuilderSize) % 4)
       /\ \A i \in (BuilderSize + 1)..Len(cout.v.buffer) : cout.v.buffer[i] = 0

\* a second push onto a table named "ab" has left a length that needs three
\* padding bytes
C25_Witness ==
    /\ cpc = "built"
    /\ cin = [id |-> TABLE, name |-> <<97, 98>>]
    /\ cout.ok
    /\ cout.v.pushes = MaxPushes
    /\ BuilderSize % 4 = 1
    /\ Len(cout.v.buffer) = BuilderSize + 3

(* ---------------------------------------------------------------------- *)
(* BlobMsg runs with a sibling behind the blob                            *)
(* ---------------------------------------------------------------------- *)
\* the blobs that are parsed: every input of the BlobMsg runs that parses
\* back to its own variant
FirstMsgs == { msg \in MsgInputs : msg.ty # "Bool" }
\* the blob that follows in the buffer
SiblingMsgs == KidMsgs

InitSibling ==
    /\ NoConn
    /\ cpc = "sibling"
    /\ cin \in [msg : FirstMsgs, sibling : SiblingMsgs]
    /\ cout = CErr("none")

\* the buffer: the bytes of the blob, then the bytes of its sibling
SiblingSerialize ==
    /\ cpc = "sibling"
    /\ LET first == BlobMsgToBytes(cin.msg)
           second == BlobMsgToBytes(cin.sibling)
       IN  cout' = IF first.ok /\ second.ok THEN COk(first.v \o second.v) ELSE CPanic
    /\ cpc' = "sibling_bytes"
    /\ UNCHANGED <<cin, conn>>

\* BlobMsg::try_from(&buffer[..]): the blob at the head of the buffer
SiblingParseFirst ==
    /\ cpc = "sibling_bytes"
    /\ cout.ok
    /\ cout' = BlobMsgFromBytes(cout.v, build)
    /\ cpc' = "sibling_first"
    /\ UNCHANGED <<cin, conn>>

\* the buffer as the payload of a table: every blob of it
SiblingParseAll ==
    /\ cpc = "sibling_bytes"
    /\ cout.ok
    /\ cout' = MembersFromBytes(cout.v, build)
    /\ cpc' = "sibling_all"
    /\ UNCHANGED <<cin, conn>>

NextSibling == SiblingSerialize \/ SiblingParseFirst \/ SiblingParseAll
SpecSibling == InitSibling /\ [][NextSibling]_vars

(* ---------------------------------------------------------------------- *)
(* C26                                                                    *)
(* ---------------------------------------------------------------------- *)
\* C26: parsing a BlobMsg from a buffer that holds a sibling blob behind it
\* takes only the blob's own bytes as the value payload: the result is the
\* blob that was written, an array or a table has its own children and no
\* child from the sibling's bytes, and the sibling is the next blob.
C26_PayloadConfined ==
    /\ cpc = "sibling_first" => (cout.ok /\ cout.v = cin.msg)
    /\ cpc = "sibling_all" => (cout.ok /\ cout.v = <<cin.msg, cin.sibling>>)

\* a table of MaxKids members has been parsed from a buffer that goes on
\* with an Int32 blob
C26_Witness ==
    /\ cpc = "sibling_first"
    /\ cin.msg.ty = "Table"
    /\ Len(cin.msg.kids) = MaxKids
    /\ cin.sibling = BlobMsg(<<107>>, "Int32", <<70000>>, <<>>)
    /\ cout.ok
    /\ Len(cout.v.kids) = MaxKids

(* ---------------------------------------------------------------------- *)
(* C27                                                                    *)
(* ---------------------------------------------------------------------- *)
\* C27: for every message (header of version CURRENT with any command,
\* sequence and peer, any list of attributes) UbusMsg::to_bytes succeeds,
\* and UbusMsg::from_io of the bytes yields the same header and the same
\* attributes in the same order and consumes exactly the bytes written, so
\* that the next frame starts right behind.
C27_FrameRoundTrip ==
    /\ cpc = "frame_bytes" => cout.ok
    /\ cpc = "frame_read"
        => /\ cout.ok
           /\ cout.v.header = cin.header
           /\ Len(cout.v.blobs) = Len(cin.blobs)
           /\ \A i \in DOMAIN cin.blobs :
                 /\ cout.v.blobs[i].id = cin.blobs[i].id
                 /\ cout.v.blobs[i].n = HeldBytes(cin.blobs[i].id, cin.blobs[i].payload)
           /\ cout.v.rest = Trailer

(* ---------------------------------------------------------------------- *)
(* C28                                                                    *)
(* ---------------------------------------------------------------------- *)
\* C28: every call of BlobIter::next returns; it either returns None or
\* removes at least 4 bytes from the remaining data (so that a buffer of
\* len bytes yields at most len/4 items), and a tag whose length field is
\* below 4 ends the iteration with None.
C28_IterTerminates ==
    [][ (cpc = "iter" /\ cpc' = "iter")
        => /\ cout'.ok
           /\ \/ cout'.v.last = "None"
              \/ Len(cout'.v.data) + 4 <= Len(cout.v.data) ]_vars

C30_SequenceAdvancesByOne ==
    [][ nreq' # nreq
        => /\ sequence' = (sequence + 1) % 65536
           /\ sequence' # sequence
           /\ request_sequence' = sequence'
           /\ \A k \in DOMAIN out' : out'[k].sequence = sequence' ]_vars

====
